---------------------------- MODULE Spec2Model ----------------------------
(***************************************************************************)
(* thought-cli: the Section Store (src/logger.js) and the Backup Engine   *)
(* (src/backup.js) as a state machine over the two directories they own.  *)
(*                                                                         *)
(* Strings are sequences of one-character strings, so that sanitising,    *)
(* trimming, splitting and the file-name tests of the code are computed   *)
(* character by character.  A timestamp and a file extension are one      *)
(* token each.                                                             *)
(***************************************************************************)
EXTENDS Integers, Sequences, FiniteSets, TLC

VARIABLES
    files,          \* sections/<id>.txt : section id -> file content
    meta,           \* sections/metadata.json : [exists, data]
    backups,        \* backups/ : artifact name -> [gz, kind, text, ..., mtime]
    now,            \* the clock the timestamps and the cut-off date are read from
    useCompression, \* backupConfig.useCompression
    call,           \* the rotating backup in flight, between its two writes
    out,            \* what the last operation was given and returned
    appended,       \* per section: the texts appended since the log was empty
    rt,             \* the last backupSection(s, rotate=false) that returned a path
    frt,            \* the last createFullBackup that returned a path
    gone,           \* the names of the artifacts deleted at the current clock value
    steps,          \* the operations run so far, where a specification counts them
    currentSection, \* ui.js: the section the shell is in, <<>> for null
    uiLogs,         \* ui.js: `logs`, the entries the shell holds in memory
    question,       \* ui.js: the rl.question callback waiting for an answer
    timer,          \* the interval timer of scheduleBackups is armed
    clockInterval,  \* ui.js: the interval whose handle clockInterval holds
                    \* is active
    timeouts,       \* ui.js: the callbacks of setTimeout that have not run
    intervals       \* ui.js: the intervals of startClock that are active

shellVars == <<currentSection, uiLogs, question, timer, clockInterval,
               timeouts, intervals>>

vars == <<files, meta, backups, now, useCompression, call, out, appended, rt,
          frt, gone, steps, shellVars>>

\* no rl.question is waiting for its answer
NoQuestion ==
    [kind |-> "none", path |-> <<>>, type |-> "", number |-> <<>>,
     name |-> <<>>]

\* the shell before a section is entered, no timer armed
ShellStart ==
    /\ currentSection = <<>>
    /\ uiLogs = <<>>
    /\ question = NoQuestion
    /\ timer = FALSE
    /\ clockInterval = FALSE
    /\ timeouts = {}
    /\ intervals = 0

---------------------------------------------------------------------------
(* Bounds of the model and the configuration it is run with               *)

\* backupConfig.maxBackupsPerSection (default 5), run with a small value
maxBackupsPerSection == 2
\* backupConfig.retentionDays (default 30), counted in clock ticks
retentionDays == 1
\* config.logRotationSize (default 5 MiB), counted in characters
logRotationSize == 8
\* the clock runs from 0 to MaxTime
MaxTime == 2
\* no log grows beyond MaxLogLen entries
MaxLogLen == 1
\* the Section Store specification appends at most MaxEntries entries in all
MaxEntries == 3
\* the specification of all operations runs at most MaxSteps of them
MaxSteps == 5
\* config.maxSectionNameLength and config.maxDescriptionLength, in characters
maxSectionNameLength == 3
maxDescriptionLength == 2

---------------------------------------------------------------------------
(* Strings                                                                 *)

Letters ==
    {"a","b","c","d","e","f","g","h","i","j","k","l","m",
     "n","o","p","q","r","s","t","u","v","w","x","y","z",
     "A","B","C","D","E","F","G","H","I","J","K","L","M",
     "N","O","P","Q","R","S","T","U","V","W","X","Y","Z"}

Digits == {"0","1","2","3","4","5","6","7","8","9"}

\* the character class [a-zA-Z0-9-_] of createSection
AllowedChars == Letters \cup Digits \cup {"-", "_"}

\* what String.prototype.trim removes
IsSpace(c) == c \in {" ", "\t", "\n", "\r"}

NL == <<"\n">>

startsWith(s, p) == Len(s) >= Len(p) /\ SubSeq(s, 1, Len(p)) = p

endsWith(s, p) == Len(s) >= Len(p) /\ SubSeq(s, Len(s) - Len(p) + 1, Len(s)) = p

RECURSIVE trimStart(_)
trimStart(s) ==
    IF s # <<>> /\ IsSpace(Head(s)) THEN trimStart(Tail(s)) ELSE s

RECURSIVE trimEnd(_)
trimEnd(s) ==
    IF s # <<>> /\ IsSpace(s[Len(s)]) THEN trimEnd(SubSeq(s, 1, Len(s) - 1)) ELSE s

trim(s) == trimEnd(trimStart(s))

\* s.split('\n'): the pieces between the newlines, at least one piece
RECURSIVE splitLines(_, _)
splitLines(s, cur) ==
    IF s = <<>> THEN <<cur>>
    ELSE IF Head(s) = "\n" THEN <<cur>> \o splitLines(Tail(s), <<>>)
    ELSE splitLines(Tail(s), Append(cur, Head(s)))

split(s) == splitLines(s, <<>>)

config_defaultSection == <<"b","a","s","e">>

fullBackupPrefix == <<"f","u","l","l","-","b","a","c","k","u","p","-">>

backupExtension == <<".bak">>

compressedExtension == <<".bak", ".gz">>

---------------------------------------------------------------------------
(* Files and JavaScript objects                                            *)

existsSync(dir, name) == name \in DOMAIN dir

writeFileSync(dir, name, data) == (name :> data) @@ dir

unlinkSync(dir, name) == [n \in DOMAIN dir \ {name} |-> dir[n]]

\* obj[key] = value on a plain object: the key "__proto__" reaches the
\* accessor of Object.prototype and creates no own property
ProtoKey == <<"_","_","p","r","o","t","o","_","_">>

SetProp(obj, key, value) ==
    IF key = ProtoKey THEN obj ELSE (key :> value) @@ obj

EmptyObj == <<>>

NoMeta == [exists |-> FALSE, data |-> EmptyObj]

---------------------------------------------------------------------------
(* Section Store (logger.js)                                               *)

getLogFilePath(section) == section

\* the parsed sidecar, or {} when there is none
getSectionMetadata(m) == IF m.exists THEN m.data ELSE EmptyObj

saveSectionMetadata(metadata) == [exists |-> TRUE, data |-> metadata]

\* the ids of the *.txt files of the sections directory
getSections(dir) == DOMAIN dir

\* name.replace(/[^a-zA-Z0-9-_]/g, '_')
sanitize(name) ==
    [i \in 1..Len(name) |-> IF name[i] \in AllowedChars THEN name[i] ELSE "_"]

\* the sections directory after createSection(name, ...)
createSectionFiles(dir, name) ==
    LET logFilePath == getLogFilePath(sanitize(name))
    IN  IF ~existsSync(dir, logFilePath)
        THEN writeFileSync(dir, logFilePath, <<>>)
        ELSE dir

\* the sidecar after createSection(name, description)
createSectionMeta_Fresh(m, name, description) ==
    saveSectionMetadata(
        SetProp(EmptyObj, sanitize(name), [description |-> description]))

createSectionMeta(m, name, description) ==
    saveSectionMetadata(
        SetProp(getSectionMetadata(m), sanitize(name),
                [description |-> description]))

\* loadAllLogs without the trim() of the whole file
loadAllLogs_NoFileTrim(dir, section) ==
    IF existsSync(dir, getLogFilePath(section))
    THEN SelectSeq(split(dir[getLogFilePath(section)]),
                   LAMBDA line : trim(line) # <<>>)
    ELSE <<>>

\* the entries loadAllLogs(section) returns
loadAllLogs(dir, section) ==
    IF existsSync(dir, getLogFilePath(section))
    THEN SelectSeq(split(trim(dir[getLogFilePath(section)])),
                   LAMBDA line : trim(line) # <<>>)
    ELSE <<>>

\* fs.appendFileSync(logFilePath, logEntry + '\n')
appendFileSync(dir, name, data) ==
    writeFileSync(dir, name,
                  (IF existsSync(dir, name) THEN dir[name] ELSE <<>>) \o data)

\* saveLog writing the entry over the log
saveLogFiles_Overwrite(dir, section, logEntry) ==
    writeFileSync(dir, getLogFilePath(section), logEntry \o NL)

\* the sections directory after saveLog(section, logEntry)
saveLogFiles(dir, section, logEntry) ==
    appendFileSync(dir, getLogFilePath(section), logEntry \o NL)

\* saveLog asking for a rotation when the log has reached the threshold
saveLogResult_AtThreshold(dir, section, logEntry) ==
    Len(saveLogFiles(dir, section, logEntry)[getLogFilePath(section)])
        >= logRotationSize

\* what saveLog returns: stats.size > config.logRotationSize
saveLogResult(dir, section, logEntry) ==
    Len(saveLogFiles(dir, section, logEntry)[getLogFilePath(section)])
        > logRotationSize

---------------------------------------------------------------------------
(* What an operation reports                                               *)

NoOut ==
    [op |-> "none", section |-> <<>>, path |-> <<>>, ok |-> FALSE,
     overwrite |-> FALSE, rotate |-> FALSE, lines |-> <<>>,
     description |-> "", successCount |-> 0, sectionCount |-> 0,
     name |-> <<>>, raised |-> FALSE]

\* no rotating backup is in flight
NoCall == [op |-> "idle", section |-> <<>>, content |-> <<>>, path |-> <<>>]

\* the count of entries of one log
RECURSIVE countNL(_)
countNL(s) ==
    IF s = <<>> THEN 0
    ELSE (IF Head(s) = "\n" THEN 1 ELSE 0) + countNL(Tail(s))

RECURSIVE totalEntries(_, _)
totalEntries(dir, ids) ==
    IF ids = {} THEN 0
    ELSE LET s == CHOOSE x \in ids : TRUE
         IN  countNL(dir[s]) + totalEntries(dir, ids \ {s})

---------------------------------------------------------------------------
(* Section Store operations                                                *)

CreateSection(name, description) ==
    /\ call.op = "idle"
    /\ files' = createSectionFiles(files, name)
    /\ meta' = createSectionMeta(meta, name, description)
    /\ out' = [NoOut EXCEPT !.op = "createSection", !.section = sanitize(name),
                            !.description = description, !.name = name]
    /\ UNCHANGED <<backups, now, useCompression, call>>

\* ensureDefaultSection creating the section whether or not it is listed
ensureDefaultSection_NoCheck(dir, m) ==
    [files |-> createSectionFiles(dir, config_defaultSection),
     meta  |-> createSectionMeta(m, config_defaultSection, "General thoughts")]

\* the sections directory and the sidecar after ensureDefaultSection()
ensureDefaultSection(dir, m) ==
    IF config_defaultSection \notin getSections(dir)
    THEN [files |-> createSectionFiles(dir, config_defaultSection),
          meta  |-> createSectionMeta(m, config_defaultSection,
                                      "General thoughts")]
    ELSE [files |-> dir, meta |-> m]

EnsureDefaultSection ==
    /\ call.op = "idle"
    /\ files' = ensureDefaultSection(files, meta).files
    /\ meta' = ensureDefaultSection(files, meta).meta
    /\ out' = [NoOut EXCEPT !.op = "ensureDefaultSection",
                            !.section = config_defaultSection]
    /\ UNCHANGED <<backups, now, useCompression, call>>

SaveLog(section, logEntry) ==
    /\ call.op = "idle"
    /\ files' = saveLogFiles(files, section, logEntry)
    /\ out' = [NoOut EXCEPT !.op = "saveLog", !.section = section,
                            !.ok = saveLogResult(files, section, logEntry)]
    /\ UNCHANGED <<meta, backups, now, useCompression, call>>

LoadAllLogs(section) ==
    /\ call.op = "idle"
    /\ out' = [NoOut EXCEPT !.op = "loadAllLogs", !.section = section,
                            !.lines = loadAllLogs(files, section)]
    /\ UNCHANGED <<files, meta, backups, now, useCompression, call>>

---------------------------------------------------------------------------
(* Backup Engine (backup.js): artifacts and their names                    *)

\* new Date().toISOString().replace(/[:.]/g, '-'), one token per clock value
timestampToken(t) == "T" \o ToString(t)

\* `${section}-${timestamp}${backupConfig.backupExtension}`
sectionBackupName(section, t) ==
    section \o <<"-", timestampToken(t)>> \o backupExtension

\* `${backupConfig.fullBackupPrefix}${timestamp}${backupConfig.backupExtension}`
fullBackupName(t) ==
    fullBackupPrefix \o <<timestampToken(t)>> \o backupExtension

\* backupPath + '.gz'
gzName(name) == name \o <<".gz">>

\* a file of the backup directory holding a section's text
textArtifact(gz, text, t) ==
    [gz |-> gz, kind |-> "text", text |-> text, timestamp |-> 0,
     metadata |-> EmptyObj, sections |-> EmptyObj, mtime |-> t]

\* a file of the backup directory holding JSON.stringify(backupData)
jsonArtifact(gz, backupData, t) ==
    [gz |-> gz, kind |-> "json", text |-> <<>>,
     timestamp |-> backupData.timestamp, metadata |-> backupData.metadata,
     sections |-> backupData.sections, mtime |-> t]

\* file.match(/^([^-]+)-/): the text before the first '-', when there is
\* at least one character before it
RECURSIVE firstDash(_, _)
firstDash(file, i) ==
    IF i > Len(file) THEN 0
    ELSE IF file[i] = "-" THEN i
    ELSE firstDash(file, i + 1)

matchSection(file) ==
    LET i == firstDash(file, 1)
    IN  IF i >= 2 THEN [found |-> TRUE, name |-> SubSeq(file, 1, i - 1)]
        ELSE [found |-> FALSE, name |-> <<>>]

\* one record of listAllBackups
backupRecord(dir, file) ==
    [path |-> file,
     name |-> file,
     date |-> dir[file].mtime,
     type |-> IF startsWith(file, fullBackupPrefix) THEN "full" ELSE "section",
     section |-> IF startsWith(file, fullBackupPrefix)
                 THEN [found |-> FALSE, name |-> <<>>]
                 ELSE matchSection(file)]

\* the orders fs.readdirSync may enumerate a directory in
readdirOrders(dir) ==
    { o \in [1..Cardinality(DOMAIN dir) -> DOMAIN dir] :
        \A i, j \in DOMAIN o : i # j => o[i] # o[j] }

\* listAllBackups, the directory being enumerated in the order files
listAllBackups(dir, order) ==
    [i \in 1..Len(order) |-> backupRecord(dir, order[i])]

\* a loop of fs.unlinkSync over list: an unlink throws when the file is not
\* there or when the filesystem denies it, and the loop is left by the first
\* unlink that throws
RECURSIVE unlinkLoop(_, _, _)
unlinkLoop(dir, list, denied) ==
    IF list = <<>> THEN [dir |-> dir, threw |-> FALSE]
    ELSE IF ~existsSync(dir, Head(list).path) \/ Head(list).path \in denied
    THEN [dir |-> dir, threw |-> TRUE]
    ELSE unlinkLoop(unlinkSync(dir, Head(list).path), Tail(list), denied)

\* the loop on a filesystem that denies nothing
unlinkEach(dir, list) == unlinkLoop(dir, list, {}).dir

\* backups.slice(n)
slice(list, n) == SubSeq(list, n + 1, Len(list))

\* the body of the try of cleanupOldBackups and cleanupOldFullBackups keeping
\* the first records only, with no rule on the age
cleanupRun_CountRuleOnly(dir, matching, t, days, denied) ==
    IF Len(matching) > maxBackupsPerSection
    THEN unlinkLoop(dir, slice(matching, maxBackupsPerSection), denied).dir
    ELSE dir

\* the body of the try of cleanupOldBackups and cleanupOldFullBackups on the
\* matching records: the count rule, then the age rule at date t with the
\* retention of days; an unlink that throws leaves the try
cleanupRun(dir, matching, t, days, denied) ==
    LET afterCount ==
            IF Len(matching) > maxBackupsPerSection
            THEN unlinkLoop(dir, slice(matching, maxBackupsPerSection), denied)
            ELSE [dir |-> dir, threw |-> FALSE]
        cutoffDate == t - days
        expiredBackups == SelectSeq(matching, LAMBDA b : b.date < cutoffDate)
    IN  IF afterCount.threw THEN afterCount.dir
        ELSE IF days > 0
        THEN unlinkLoop(afterCount.dir, expiredBackups, denied).dir
        ELSE afterCount.dir

\* the two rules under backupConfig.retentionDays, nothing being denied
cleanupRules(dir, matching, t) ==
    cleanupRun(dir, matching, t, retentionDays, {})

\* allBackups.filter(b => b.type === 'section' && b.section === section)
matchingBackups(dir, order, section) ==
    SelectSeq(listAllBackups(dir, order),
              LAMBDA b : b.type = "section" /\ b.section.found
                         /\ b.section.name = section)

\* the backup directory after cleanupOldBackups(section)
cleanupOldBackups(dir, order, section, t) ==
    cleanupRules(dir, matchingBackups(dir, order, section), t)

\* what listBackups() returns: the full backups, then the section backups
listBackups(dir, order) ==
    LET allBackups == listAllBackups(dir, order)
    IN  SelectSeq(allBackups, LAMBDA b : b.type = "full")
        \o SelectSeq(allBackups, LAMBDA b : b.type = "section")

\* listBackups().filter(b => b.type === 'full')
matchingFullBackups(dir, order) ==
    SelectSeq(listBackups(dir, order), LAMBDA b : b.type = "full")

\* the backup directory after cleanupOldFullBackups()
cleanupOldFullBackups(dir, order, t) ==
    cleanupRules(dir, matchingFullBackups(dir, order), t)

---------------------------------------------------------------------------
(* Backup Engine: backupSection, createBackup, createFullBackup            *)

\* the path backupSection writes and returns
backupSectionPath(section, t, gz) ==
    IF gz THEN gzName(sectionBackupName(section, t))
    ELSE sectionBackupName(section, t)

\* backupSection emptying the log before the snapshot is written
backupSectionSnapshot_TruncateFirst(logs, dir, section, t, gz) ==
    [logs |-> writeFileSync(logs, getLogFilePath(section), <<>>),
     dir  |-> dir]

\* backupSection up to the write of the snapshot: the log is read and the
\* artifact written, the log itself is not touched
backupSectionSnapshot(logs, dir, section, t, gz) ==
    [logs |-> logs,
     dir  |-> writeFileSync(dir, backupSectionPath(section, t, gz),
                            textArtifact(gz, logs[getLogFilePath(section)], t))]

\* fs.writeFileSync(logFilePath, '')
truncateLog_BlankLine(logs, section) ==
    writeFileSync(logs, getLogFilePath(section), NL)

truncateLog(logs, section) == writeFileSync(logs, getLogFilePath(section), <<>>)

\* createBackup up to fs.copyFileSync(logFilePath, backupPath)
createBackupCopy(logs, dir, section, t) ==
    [logs |-> logs,
     dir  |-> writeFileSync(dir, sectionBackupName(section, t),
                            textArtifact(FALSE, logs[getLogFilePath(section)], t))]

\* the payload createFullBackup builds
fullBackupData(logs, m, t) ==
    [timestamp |-> t,
     metadata  |-> IF m.exists THEN m.data ELSE EmptyObj,
     sections  |-> [s \in getSections(logs) \ {ProtoKey} |-> logs[getLogFilePath(s)]]]

\* the path createFullBackup writes and returns
fullBackupPath(t, gz) ==
    IF gz THEN gzName(fullBackupName(t)) ELSE fullBackupName(t)

\* the backup directory after createFullBackup wrote its artifact
createFullBackupWrite(logs, m, dir, t, gz) ==
    writeFileSync(dir, fullBackupPath(t, gz),
                  jsonArtifact(gz, fullBackupData(logs, m, t), t))

---------------------------------------------------------------------------
(* Backup Engine: restoreFromBackup                                        *)

\* restoreSectionBackup writing whether or not the file exists
restoreSectionBackup_AlwaysWrite(logs, section, content, overwrite) ==
    [ok |-> TRUE,
     logs |-> writeFileSync(logs, getLogFilePath(section), content)]

restoreSectionBackup(logs, section, content, overwrite) ==
    LET logFilePath == getLogFilePath(section)
    IN  IF overwrite \/ ~existsSync(logs, logFilePath)
        THEN [ok |-> TRUE, logs |-> writeFileSync(logs, logFilePath, content)]
        ELSE [ok |-> FALSE, logs |-> logs]

\* restoreFullBackup writing the sidecar whether or not one exists
restoreFullBackup_NoSidecarGuard(logs, m, backupData, overwrite) ==
    LET restored == { s \in DOMAIN backupData.sections :
                        overwrite \/ ~existsSync(logs, getLogFilePath(s)) }
    IN  [ok   |-> TRUE,
         meta |-> [exists |-> TRUE, data |-> backupData.metadata],
         logs |-> [s \in DOMAIN logs \cup restored |->
                     IF s \in restored THEN backupData.sections[s] ELSE logs[s]],
         successCount |-> Cardinality(restored),
         sectionCount |-> Cardinality(DOMAIN backupData.sections)]

\* restoreFullBackup leaving only the contained sections on disk
restoreFullBackup_ReplaceAll(logs, m, backupData, overwrite) ==
    LET restored == { s \in DOMAIN backupData.sections :
                        overwrite \/ ~existsSync(logs, getLogFilePath(s)) }
        kept == IF overwrite THEN DOMAIN backupData.sections
                ELSE DOMAIN logs \cup restored
    IN  [ok   |-> TRUE,
         meta |-> IF overwrite \/ ~m.exists
                  THEN [exists |-> TRUE, data |-> backupData.metadata]
                  ELSE m,
         logs |-> [s \in kept |->
                     IF s \in restored THEN backupData.sections[s] ELSE logs[s]],
         successCount |-> Cardinality(restored),
         sectionCount |-> Cardinality(DOMAIN backupData.sections)]

\* restoreFullBackup writing every contained section, existing or not
restoreFullBackup_IgnoreExisting(logs, m, backupData, overwrite) ==
    LET restored == DOMAIN backupData.sections
    IN  [ok   |-> TRUE,
         meta |-> IF overwrite \/ ~m.exists
                  THEN [exists |-> TRUE, data |-> backupData.metadata]
                  ELSE m,
         logs |-> [s \in DOMAIN logs \cup restored |->
                     IF s \in restored THEN backupData.sections[s] ELSE logs[s]],
         successCount |-> Cardinality(restored),
         sectionCount |-> Cardinality(DOMAIN backupData.sections)]

\* restoreFullBackup(backupData, overwrite): the sidecar, then each contained
\* section, each written when overwrite is set or the file does not exist
restoreFullBackup(logs, m, backupData, overwrite) ==
    LET restored == { s \in DOMAIN backupData.sections :
                        overwrite \/ ~existsSync(logs, getLogFilePath(s)) }
    IN  [ok   |-> TRUE,
         meta |-> IF overwrite \/ ~m.exists
                  THEN [exists |-> TRUE, data |-> backupData.metadata]
                  ELSE m,
         logs |-> [s \in DOMAIN logs \cup restored |->
                     IF s \in restored THEN backupData.sections[s] ELSE logs[s]],
         successCount |-> Cardinality(restored),
         sectionCount |-> Cardinality(DOMAIN backupData.sections)]

\* what restoreFromBackup reads: gunzipSync(readFileSync(path)).toString()
\* for a path ending in .gz, readFileSync(path, 'utf-8') otherwise
readBackup(dir, backupPath) ==
    LET a == dir[backupPath]
    IN  IF endsWith(backupPath, <<".gz">>)
        THEN [threw |-> ~a.gz, kind |-> a.kind, artifact |-> a]
        ELSE [threw |-> FALSE,
              kind  |-> IF a.gz THEN "binary" ELSE a.kind,
              artifact |-> a]

restoreFailed(logs, m) ==
    [ok |-> FALSE, logs |-> logs, meta |-> m, successCount |-> 0,
     sectionCount |-> 0]

\* restoreFromBackup restoring a section artifact, when no section is given,
\* into the section its name starts with
restoreFromBackup_DerivedSection(logs, m, dir, backupPath, section, overwrite) ==
    IF ~existsSync(dir, backupPath) THEN restoreFailed(logs, m)
    ELSE LET r == readBackup(dir, backupPath)
             target == IF section # <<>> THEN section
                       ELSE matchSection(backupPath).name
         IN  IF r.threw THEN restoreFailed(logs, m)
             ELSE IF startsWith(backupPath, fullBackupPrefix)
             THEN IF r.kind # "json" THEN restoreFailed(logs, m)
                  ELSE restoreFullBackup(logs, m, r.artifact, overwrite)
             ELSE LET x == restoreSectionBackup(logs, target,
                                                r.artifact.text, overwrite)
                  IN  [ok |-> x.ok, logs |-> x.logs, meta |-> m,
                       successCount |-> 0, sectionCount |-> 0]

\* restoreFromBackup(backupPath, section, overwrite); section <<>> is null
restoreFromBackup(logs, m, dir, backupPath, section, overwrite) ==
    IF ~existsSync(dir, backupPath) THEN restoreFailed(logs, m)
    ELSE LET r == readBackup(dir, backupPath)
         IN  IF r.threw THEN restoreFailed(logs, m)
             ELSE IF startsWith(backupPath, fullBackupPrefix)
             THEN IF r.kind # "json" THEN restoreFailed(logs, m)
                  ELSE restoreFullBackup(logs, m, r.artifact, overwrite)
             ELSE IF section # <<>>
             THEN LET x == restoreSectionBackup(logs, section,
                                                r.artifact.text, overwrite)
                  IN  [ok |-> x.ok, logs |-> x.logs, meta |-> m,
                       successCount |-> 0, sectionCount |-> 0]
             ELSE restoreFailed(logs, m)

---------------------------------------------------------------------------
(* Backup Engine operations                                                *)

Tick ==
    /\ call.op = "idle"
    /\ now' = now + 1
    /\ out' = [NoOut EXCEPT !.op = "tick"]
    /\ UNCHANGED <<files, meta, backups, useCompression, call>>

\* backupSection(section, false) taking a missing log for an empty one
BackupSection_NoExistenceCheck(section) ==
    /\ call.op = "idle"
    /\ LET content == IF existsSync(files, getLogFilePath(section))
                      THEN files[getLogFilePath(section)] ELSE <<>>
           p == backupSectionPath(section, now, useCompression)
           w == writeFileSync(backups, p,
                              textArtifact(useCompression, content, now))
       IN  /\ \E order \in readdirOrders(w) :
                 backups' = cleanupOldBackups(w, order, section, now)
           /\ out' = [NoOut EXCEPT !.op = "backupSection",
                                   !.section = section, !.ok = TRUE,
                                   !.path = p]
    /\ UNCHANGED <<files, meta, now, useCompression, call>>

\* backupSection(section, false): the whole call
BackupSection(section) ==
    /\ call.op = "idle"
    /\ \E failWrite \in BOOLEAN :
         IF ~existsSync(files, getLogFilePath(section)) \/ failWrite
         THEN /\ out' = [NoOut EXCEPT !.op = "backupSection", !.section = section]
              /\ UNCHANGED <<backups>>
         ELSE LET w == backupSectionSnapshot(files, backups, section, now,
                                             useCompression)
                  p == backupSectionPath(section, now, useCompression)
              IN  /\ \E order \in readdirOrders(w.dir) :
                        backups' = cleanupOldBackups(w.dir, order, section, now)
                  /\ out' = [NoOut EXCEPT !.op = "backupSection",
                                          !.section = section, !.ok = TRUE,
                                          !.path = p]
    /\ UNCHANGED <<files, meta, now, useCompression, call>>

\* backupSection(section, true) up to the write of the snapshot
BackupSectionRotate(section) ==
    /\ call.op = "idle"
    /\ \E failWrite \in BOOLEAN :
         IF ~existsSync(files, getLogFilePath(section)) \/ failWrite
         THEN /\ out' = [NoOut EXCEPT !.op = "backupSection", !.section = section,
                                      !.rotate = TRUE]
              /\ UNCHANGED <<files, backups, call>>
         ELSE LET w == backupSectionSnapshot(files, backups, section, now,
                                             useCompression)
              IN  /\ files' = w.logs
                  /\ backups' = w.dir
                  /\ call' = [op |-> "backupSection", section |-> section,
                              content |-> files[getLogFilePath(section)],
                              path |-> backupSectionPath(section, now,
                                                         useCompression)]
                  /\ out' = [NoOut EXCEPT !.op = "snapshot", !.section = section,
                                          !.rotate = TRUE]
    /\ UNCHANGED <<meta, now, useCompression>>

\* backupSection(section, true) from the truncation to its return
BackupSectionRotateEnd ==
    /\ call.op = "backupSection"
    /\ files' = truncateLog(files, call.section)
    /\ \E order \in readdirOrders(backups) :
          backups' = cleanupOldBackups(backups, order, call.section, now)
    /\ out' = [NoOut EXCEPT !.op = "backupSection", !.section = call.section,
                            !.rotate = TRUE, !.ok = TRUE, !.path = call.path]
    /\ call' = NoCall
    /\ UNCHANGED <<meta, now, useCompression>>

\* createBackup(section, false) of logger.js: the whole call
CreateBackup(section) ==
    /\ call.op = "idle"
    /\ \E failWrite \in BOOLEAN :
         IF ~existsSync(files, getLogFilePath(section)) \/ failWrite
         THEN UNCHANGED <<backups>>
         ELSE /\ backups' = createBackupCopy(files, backups, section, now).dir
    /\ out' = [NoOut EXCEPT !.op = "createBackup", !.section = section]
    /\ UNCHANGED <<files, meta, now, useCompression, call>>

\* createBackup(section, true) up to the copy
CreateBackupRotate(section) ==
    /\ call.op = "idle"
    /\ \E failWrite \in BOOLEAN :
         IF ~existsSync(files, getLogFilePath(section)) \/ failWrite
         THEN /\ out' = [NoOut EXCEPT !.op = "createBackup", !.section = section,
                                      !.rotate = TRUE]
              /\ UNCHANGED <<files, backups, call>>
         ELSE LET w == createBackupCopy(files, backups, section, now)
              IN  /\ files' = w.logs
                  /\ backups' = w.dir
                  /\ call' = [op |-> "createBackup", section |-> section,
                              content |-> files[getLogFilePath(section)],
                              path |-> sectionBackupName(section, now)]
                  /\ out' = [NoOut EXCEPT !.op = "snapshot", !.section = section,
                                          !.rotate = TRUE]
    /\ UNCHANGED <<meta, now, useCompression>>

\* createBackup(section, true) from the truncation to its return
CreateBackupRotateEnd ==
    /\ call.op = "createBackup"
    /\ files' = truncateLog(files, call.section)
    /\ out' = [NoOut EXCEPT !.op = "createBackup", !.section = call.section,
                            !.rotate = TRUE, !.ok = TRUE, !.path = call.path]
    /\ call' = NoCall
    /\ UNCHANGED <<meta, backups, now, useCompression>>

\* the process is killed between the snapshot and the truncation
Crash ==
    /\ call.op # "idle"
    /\ call' = NoCall
    /\ out' = [NoOut EXCEPT !.op = "crash", !.section = call.section]
    /\ UNCHANGED <<files, meta, backups, now, useCompression>>

\* createFullBackup() from its first to its last step: every step on the
\* filesystem is a synchronous call, op names the caller in the outcome
createFullBackupRun(op) ==
    /\ \E failWrite \in BOOLEAN :
         IF failWrite
         THEN /\ out' = [NoOut EXCEPT !.op = op]
              /\ UNCHANGED <<backups>>
         ELSE LET w == createFullBackupWrite(files, meta, backups, now,
                                             useCompression)
                  p == fullBackupPath(now, useCompression)
              IN  /\ \E order \in readdirOrders(w) :
                        backups' = cleanupOldFullBackups(w, order, now)
                  /\ out' = [NoOut EXCEPT !.op = op, !.ok = TRUE, !.path = p]
    /\ UNCHANGED <<files, meta, now, useCompression, call>>

CreateFullBackup ==
    /\ call.op = "idle"
    /\ createFullBackupRun("createFullBackup")

RestoreFromBackup(backupPath, section, overwrite) ==
    /\ call.op = "idle"
    /\ LET r == restoreFromBackup(files, meta, backups, backupPath, section,
                                  overwrite)
       IN  /\ files' = r.logs
           /\ meta' = r.meta
           /\ out' = [NoOut EXCEPT !.op = "restoreFromBackup",
                                   !.section = section, !.path = backupPath,
                                   !.overwrite = overwrite, !.ok = r.ok,
                                   !.successCount = r.successCount,
                                   !.sectionCount = r.sectionCount]
    /\ UNCHANGED <<backups, now, useCompression, call>>

---------------------------------------------------------------------------
(* The operations when a step on the filesystem fails                      *)

\* the steps of createSection that can fail: the write of the empty log, the
\* read or the parse of the sidecar, the write of the sidecar
CreateFaults == {"none", "writeLog", "readMeta", "writeMeta"}

\* createSection(name, description) with the step fault failing: the write
\* of the log is under no try, getSectionMetadata and saveSectionMetadata
\* catch what they throw
createSectionFaulty(dir, m, name, description, fault) ==
    LET logFilePath == getLogFilePath(sanitize(name))
        metadata == IF fault = "readMeta" THEN EmptyObj
                    ELSE getSectionMetadata(m)
        saved == IF fault = "writeMeta" THEN m
                 ELSE saveSectionMetadata(
                          SetProp(metadata, sanitize(name),
                                  [description |-> description]))
    IN  IF ~existsSync(dir, logFilePath) /\ fault = "writeLog"
        THEN [raised |-> TRUE, files |-> dir, meta |-> m]
        ELSE [raised |-> FALSE, files |-> createSectionFiles(dir, name),
              meta |-> saved]

CreateSectionFaulty(name, description, fault) ==
    /\ call.op = "idle"
    /\ LET r == createSectionFaulty(files, meta, name, description, fault)
       IN  /\ files' = r.files
           /\ meta' = r.meta
           /\ out' = [NoOut EXCEPT !.op = "createSection",
                                   !.section = sanitize(name),
                                   !.description = description,
                                   !.name = name, !.raised = r.raised]
    /\ UNCHANGED <<backups, now, useCompression, call>>

\* ensureDefaultSection with a failing step: getSections returns [] when
\* readdirSync throws, and createSection is then called on the default
\* section whether or not it exists
EnsureDefaultSectionFaulty(fault) ==
    /\ call.op = "idle"
    /\ LET sections == IF fault = "readdir" THEN {} ELSE getSections(files)
           r == createSectionFaulty(files, meta, config_defaultSection,
                                    "General thoughts",
                                    IF fault = "readdir" THEN "none" ELSE fault)
       IN  IF config_defaultSection \notin sections
           THEN /\ files' = r.files
                /\ meta' = r.meta
                /\ out' = [NoOut EXCEPT !.op = "ensureDefaultSection",
                                        !.section = config_defaultSection,
                                        !.raised = r.raised]
           ELSE /\ UNCHANGED <<files, meta>>
                /\ out' = [NoOut EXCEPT !.op = "ensureDefaultSection",
                                        !.section = config_defaultSection]
    /\ UNCHANGED <<backups, now, useCompression, call>>

\* saveLog(section, logEntry), the append failing or not: the catch returns
\* false
SaveLogFaulty(section, logEntry, fail) ==
    /\ call.op = "idle"
    /\ IF fail
       THEN /\ UNCHANGED files
            /\ out' = [NoOut EXCEPT !.op = "saveLog", !.section = section]
       ELSE /\ files' = saveLogFiles(files, section, logEntry)
            /\ out' = [NoOut EXCEPT !.op = "saveLog", !.section = section,
                          !.ok = saveLogResult(files, section, logEntry)]
    /\ UNCHANGED <<meta, backups, now, useCompression, call>>

\* loadAllLogs(section), the read failing or not: the catch returns []
LoadAllLogsFaulty(section, fail) ==
    /\ call.op = "idle"
    /\ out' = [NoOut EXCEPT !.op = "loadAllLogs", !.section = section,
                            !.lines = IF fail THEN <<>>
                                      ELSE loadAllLogs(files, section)]
    /\ UNCHANGED <<files, meta, backups, now, useCompression, call>>

\* restoreFromBackup(backupPath, section, overwrite), the read, the gunzip or
\* the parse of the artifact failing or not: the catch returns false
RestoreFromBackupFaulty(backupPath, section, overwrite, fail) ==
    /\ call.op = "idle"
    /\ LET r == IF fail /\ existsSync(backups, backupPath)
                THEN restoreFailed(files, meta)
                ELSE restoreFromBackup(files, meta, backups, backupPath,
                                       section, overwrite)
       IN  /\ files' = r.logs
           /\ meta' = r.meta
           /\ out' = [NoOut EXCEPT !.op = "restoreFromBackup",
                                   !.section = section, !.path = backupPath,
                                   !.overwrite = overwrite, !.ok = r.ok,
                                   !.successCount = r.successCount,
                                   !.sectionCount = r.sectionCount]
    /\ UNCHANGED <<backups, now, useCompression, call>>

---------------------------------------------------------------------------
(* What the specifications remember of the past                            *)

NoRt == [valid |-> FALSE, path |-> <<>>, section |-> <<>>, content |-> <<>>]

NoFrt == [valid |-> FALSE, path |-> <<>>, files |-> <<>>, meta |-> NoMeta]

\* the names of the current clock value that this step deleted, the one it
\* wrote and deleted again included; a name carries its timestamp, so that no
\* later clock value writes it again
RecordGone ==
    LET written == IF out'.ok /\ out'.op \in {"backupSection", "createBackup",
                                             "createFullBackup"}
                   THEN {out'.path} ELSE {}
        left == (DOMAIN backups \cup written) \ DOMAIN backups'
    IN  gone' = IF now' # now THEN {}
                ELSE gone \cup { p \in left :
                                   \E i \in DOMAIN p : p[i] = timestampToken(now) }

Forget == UNCHANGED <<appended, rt, frt, gone, steps, shellVars>>

\* a log that did not exist now does: what is appended to it is recorded
RecordCreated ==
    /\ appended' = [s \in DOMAIN files' |->
                      IF s \in DOMAIN appended THEN appended[s] ELSE <<>>]
    /\ UNCHANGED <<rt, frt, gone, steps, shellVars>>

RecordAppend(section, logEntry) ==
    /\ appended' = (section :> Append(IF section \in DOMAIN appended
                                      THEN appended[section] ELSE <<>>,
                                      logEntry)) @@ appended
    /\ UNCHANGED <<rt, frt, gone, steps, shellVars>>

\* the section round trip: a backupSection(section, false) that returned a
\* path is remembered while only appends follow it
RecordBackup(section) ==
    /\ rt' = IF out'.ok
             THEN [valid |-> TRUE, path |-> out'.path, section |-> section,
                   content |-> files[getLogFilePath(section)]]
             ELSE NoRt
    /\ RecordGone
    /\ UNCHANGED <<appended, frt, steps, shellVars>>

KeepRt == RecordGone /\ UNCHANGED <<appended, rt, frt, steps, shellVars>>

DropRt == rt' = NoRt /\ RecordGone /\ UNCHANGED <<appended, frt, steps, shellVars>>

\* the full round trip: a createFullBackup that returned a path is
\* remembered with the sections and the sidecar it was called on
RecordFullBackup ==
    /\ frt' = IF out'.ok
              THEN [valid |-> TRUE, path |-> out'.path, files |-> files,
                    meta |-> meta]
              ELSE NoFrt
    /\ RecordGone
    /\ UNCHANGED <<appended, rt, steps, shellVars>>

---------------------------------------------------------------------------
(* The Section Store on its own                                            *)

\* the names, descriptions and texts the Section Store is driven with
StoreNames == { <<"a"," ","b","!">>, <<"a","_","b","_">>, ProtoKey }

StoreLogs == { config_defaultSection, <<"a","_","b","_">> }

Descriptions == { "d1", "d2" }

StoreTexts == { <<"x">>, <<" ","x">>, <<"x"," ">> }

\* the directories as ensureDirectories leaves them on a first start
InitStore ==
    /\ files = <<>>
    /\ meta = NoMeta
    /\ backups = <<>>
    /\ now = 0
    /\ useCompression = TRUE
    /\ call = NoCall
    /\ out = NoOut
    /\ appended = <<>>
    /\ rt = NoRt
    /\ frt = NoFrt
    /\ gone = {}
    /\ steps = 0
    /\ ShellStart

NextStore ==
    \/ \E name \in StoreNames, d \in Descriptions :
          CreateSection(name, d) /\ RecordCreated
    \/ EnsureDefaultSection /\ RecordCreated
    \/ \E s \in StoreLogs, t \in StoreTexts :
          /\ totalEntries(files, DOMAIN files) < MaxEntries
          /\ SaveLog(s, t)
          /\ RecordAppend(s, t)
    \/ \E s \in StoreLogs : LoadAllLogs(s) /\ Forget

SpecStore == InitStore /\ [][NextStore]_vars

---------------------------------------------------------------------------
(* Section backups and their restoration                                   *)

Section2 == <<"b","a","s","e","-","2">>

SectionIds == { config_defaultSection, Section2 }

Texts == { <<"x">> }

\* a path that names no file
MissingPath == <<"n","o","n","e">>

\* the backup directory holds at most one artifact more than the count
\* rule keeps
DirFull == Cardinality(DOMAIN backups) > maxBackupsPerSection

LogFull(s) == existsSync(files, s) /\ countNL(files[s]) >= MaxLogLen

\* the state init() leaves on a first start, under either configuration
Init ==
    /\ files = (config_defaultSection :> <<>>)
    /\ meta = [exists |-> TRUE,
               data |-> (config_defaultSection :>
                            [description |-> "General thoughts"])]
    /\ backups = <<>>
    /\ now = 0
    /\ useCompression \in BOOLEAN
    /\ call = NoCall
    /\ out = NoOut
    /\ appended = <<>>
    /\ rt = NoRt
    /\ frt = NoFrt
    /\ gone = {}
    /\ steps = 0
    /\ ShellStart

NextSection ==
    \/ now < MaxTime /\ Tick /\ KeepRt
    \/ \E s \in SectionIds, t \in Texts : ~LogFull(s) /\ SaveLog(s, t) /\ KeepRt
    \/ ~DirFull /\ BackupSection(config_defaultSection)
                /\ RecordBackup(config_defaultSection)
    \/ ~DirFull /\ BackupSectionRotate(config_defaultSection) /\ DropRt
    \/ BackupSectionRotateEnd /\ DropRt
    \/ ~DirFull /\ CreateBackupRotate(config_defaultSection) /\ DropRt
    \/ CreateBackupRotateEnd /\ DropRt
    \/ Crash /\ DropRt
    \/ \E p \in DOMAIN backups, s \in SectionIds, o \in BOOLEAN :
          /\ RestoreFromBackup(p, s, o)
          /\ IF rt.valid /\ p = rt.path /\ s = rt.section /\ o
             THEN KeepRt ELSE DropRt
    \/ rt.valid /\ ~existsSync(backups, rt.path)
                /\ RestoreFromBackup(rt.path, rt.section, TRUE) /\ KeepRt
    \/ RestoreFromBackup(MissingPath, config_defaultSection, TRUE) /\ DropRt

SpecSection == Init /\ [][NextSection]_vars

---------------------------------------------------------------------------
(* Full backups and their restoration                                      *)

Section3 == <<"w","o","r","k">>

\* a full backup kept from an earlier run of the program, whose sections
\* directory has since been removed: ensureDirectories and
\* ensureDefaultSection recreate the sections, the backup directory is
\* found as it was left
leftoverData ==
    [timestamp |-> 0,
     metadata  |-> (config_defaultSection :> [description |-> "old"]),
     sections  |-> (config_defaultSection :> <<"y", "\n">>)
                   @@ (Section2 :> <<"y", "\n">>)
                   @@ (Section3 :> <<>>)]

leftoverBackups(gz) ==
    (fullBackupPath(0, gz) :> jsonArtifact(gz, leftoverData, 0))

\* the state init() leaves on a start: the default section, and the backup
\* directory either empty or holding the artifact of the earlier run, which
\* was written before the clock of this run started
InitFull ==
    /\ files = (config_defaultSection :> <<>>)
    /\ meta = [exists |-> TRUE,
               data |-> (config_defaultSection :>
                            [description |-> "General thoughts"])]
    /\ useCompression \in BOOLEAN
    /\ \E leftover \in BOOLEAN :
          /\ backups = IF leftover THEN leftoverBackups(useCompression) ELSE <<>>
          /\ now = IF leftover THEN 1 ELSE 0
    /\ call = NoCall
    /\ out = NoOut
    /\ appended = <<>>
    /\ rt = NoRt
    /\ frt = NoFrt
    /\ gone = {}
    /\ steps = 0
    /\ ShellStart

KeepFrt == RecordGone /\ UNCHANGED <<appended, rt, frt, steps, shellVars>>

NextFull ==
    \/ now < MaxTime /\ Tick /\ KeepFrt
    \/ CreateSection(Section2, "d1") /\ KeepFrt
    \/ \E s \in DOMAIN files, t \in Texts :
          ~LogFull(s) /\ SaveLog(s, t) /\ KeepFrt
    \/ ~DirFull /\ CreateFullBackup /\ RecordFullBackup
    \/ \E p \in DOMAIN backups, o \in BOOLEAN :
          RestoreFromBackup(p, <<>>, o) /\ KeepFrt
    \/ frt.valid /\ ~existsSync(backups, frt.path)
                 /\ RestoreFromBackup(frt.path, <<>>, TRUE) /\ KeepFrt

SpecFull == InitFull /\ [][NextFull]_vars

---------------------------------------------------------------------------
(* The two components on a filesystem whose steps may fail                 *)

\* the directories as ensureDirectories leaves them, the backup directory
\* either empty or holding the artifact of an earlier run
InitFaults ==
    /\ files = <<>>
    /\ meta = NoMeta
    /\ useCompression = TRUE
    /\ \E leftover \in BOOLEAN :
          /\ backups = IF leftover THEN leftoverBackups(TRUE) ELSE <<>>
          /\ now = IF leftover THEN 1 ELSE 0
    /\ call = NoCall
    /\ out = NoOut
    /\ appended = <<>>
    /\ rt = NoRt
    /\ frt = NoFrt
    /\ gone = {}
    /\ steps = 0
    /\ ShellStart

\* an entry half as long as the rotation threshold, its newline included
FaultTexts == { [i \in 1..(logRotationSize \div 2 - 1) |-> "x"] }

NextFaults ==
    \/ \E d \in Descriptions, fault \in CreateFaults :
          CreateSectionFaulty(<<"a"," ","b","!">>, d, fault) /\ Forget
    \/ \E fault \in CreateFaults \cup {"readdir"} :
          EnsureDefaultSectionFaulty(fault) /\ Forget
    \/ \E t \in FaultTexts, fail \in BOOLEAN :
          /\ fail \/ totalEntries(files, DOMAIN files) < MaxEntries
          /\ SaveLogFaulty(config_defaultSection, t, fail)
          /\ Forget
    \/ \E s \in StoreLogs, fail \in BOOLEAN : LoadAllLogsFaulty(s, fail) /\ Forget
    \/ CreateFullBackup /\ Forget
    \/ \E p \in DOMAIN backups, o \in BOOLEAN, fail \in BOOLEAN :
          RestoreFromBackupFaulty(p, <<>>, o, fail) /\ Forget

SpecFaults == InitFaults /\ [][NextFaults]_vars

---------------------------------------------------------------------------
(* The backup directory filling up: backups of one section and full backups *)

\* the backup directory holds at most maxBackupsPerSection section backups
\* and as many full backups when a further one is written
CleanupDirFull == Cardinality(DOMAIN backups) >= maxBackupsPerSection * 2

NextCleanup ==
    \/ now < MaxTime /\ Tick /\ Forget
    \/ \E t \in Texts :
          /\ ~LogFull(config_defaultSection)
          /\ SaveLog(config_defaultSection, t)
          /\ Forget
    \/ ~CleanupDirFull /\ BackupSection(config_defaultSection) /\ Forget
    \/ ~CleanupDirFull /\ CreateBackup(config_defaultSection) /\ Forget
    \/ ~CleanupDirFull /\ CreateFullBackup /\ Forget

SpecCleanup == Init /\ [][NextCleanup]_vars

---------------------------------------------------------------------------
(* Full backups of the sections the Section Store creates                  *)

NextPayload ==
    \/ now < MaxTime /\ Tick /\ Forget
    \/ \E name \in StoreNames, d \in Descriptions :
          CreateSection(name, d) /\ Forget
    \/ \E s \in DOMAIN files, t \in Texts :
          /\ totalEntries(files, DOMAIN files) < MaxEntries
          /\ SaveLog(s, t)
          /\ Forget
    \/ ~DirFull /\ CreateFullBackup /\ Forget

SpecPayload == InitStore /\ [][NextPayload]_vars

---------------------------------------------------------------------------
(* Interactive Shell (ui.js): the questions, the line handler, the commands *)

\* the value of a decimal digit
DigitValue(c) == CHOOSE n \in 0..9 : ToString(n) = c

RECURSIVE parseDigits(_, _)
parseDigits(s, acc) ==
    IF s = <<>> \/ Head(s) \notin Digits THEN acc
    ELSE parseDigits(Tail(s), acc * 10 + DigitValue(Head(s)))

\* parseInt(s): leading white space, a sign, then the longest run of digits;
\* what follows the digits is ignored, and NaN is returned without a digit
parseInt(s) ==
    LET t    == trimStart(s)
        neg  == t # <<>> /\ Head(t) = "-"
        body == IF t # <<>> /\ Head(t) \in {"-", "+"} THEN Tail(t) ELSE t
    IN  IF body = <<>> \/ Head(body) \notin Digits
        THEN [nan |-> TRUE, value |-> 0]
        ELSE [nan |-> FALSE,
              value |-> IF neg THEN 0 - parseDigits(body, 0)
                        ELSE parseDigits(body, 0)]

\* logger.getCurrentDateTime(true): one token
getCurrentDateTime(t) == <<timestampToken(t)>>

\* tag.createTaggedMessage(tag, message)
createTaggedMessage(tag, message) == <<"[">> \o tag \o <<"]", " ">> \o message

\* '[SYSTEM] Log file rotated, previous logs backed up', one token
SystemMessage == <<"[SYSTEM]">>

\* logMessage keeping logs as it is when the log is rotated
RECURSIVE logMessage_KeepLogs(_, _, _, _, _, _)
logMessage_KeepLogs(dir, bk, section, lg, message, t) ==
    LET logEntry == getCurrentDateTime(t) \o <<" ">> \o message
        saved    == saveLogFiles(dir, section, logEntry)
    IN  IF saveLogResult(dir, section, logEntry)
        THEN LET r == logMessage_KeepLogs(
                          truncateLog(saved, section),
                          createBackupCopy(saved, bk, section, t).dir,
                          section, Append(lg, logEntry), SystemMessage, t)
             IN  [r EXCEPT !.rotations = @ + 1]
        ELSE [files |-> saved, backups |-> bk, logs |-> Append(lg, logEntry),
              rotations |-> 0]

\* logMessage(message): the entry is pushed and saved; when saveLog asks for
\* a rotation, createBackup(currentSection, true) copies and empties the log,
\* logs is emptied and the system message is logged by a nested call.
\* rotations counts the rotations, each followed by one nested call
RECURSIVE logMessage(_, _, _, _, _, _)
logMessage(dir, bk, section, lg, message, t) ==
    LET logEntry == getCurrentDateTime(t) \o <<" ">> \o message
        saved    == saveLogFiles(dir, section, logEntry)
    IN  IF saveLogResult(dir, section, logEntry)
        THEN LET r == logMessage(truncateLog(saved, section),
                                 createBackupCopy(saved, bk, section, t).dir,
                                 section, <<>>, SystemMessage, t)
             IN  [r EXCEPT !.rotations = @ + 1]
        ELSE [files |-> saved, backups |-> bk, logs |-> Append(lg, logEntry),
              rotations |-> 0]

\* the 'line' event reaches the handler: no question is waiting for the line
\* and a section has been entered
LineEvent ==
    /\ call.op = "idle"
    /\ currentSection # <<>>
    /\ question.kind = "none"

\* what a handler of the shell returns: nothing
ShellOut == [NoOut EXCEPT !.op = "shell"]

\* a line that is not a command, or /tag <tag> <message>
LogMessage(message) ==
    /\ LineEvent
    /\ LET r == logMessage(files, backups, currentSection, uiLogs, message, now)
       IN  /\ files' = r.files
           /\ backups' = r.backups
           /\ uiLogs' = r.logs
    /\ out' = ShellOut
    /\ UNCHANGED <<meta, now, useCompression, call, currentSection, question,
                   timer, clockInterval,
                   timeouts, intervals>>

\* /clear
ClearCommand ==
    /\ LineEvent
    /\ uiLogs' = loadAllLogs(files, currentSection)
    /\ out' = ShellOut
    /\ UNCHANGED <<files, meta, backups, now, useCompression, call,
                   currentSection, question, timer, clockInterval,
                   timeouts, intervals>>

\* /backup
BackupCommand ==
    /\ LineEvent
    /\ BackupSection(currentSection)
    /\ UNCHANGED shellVars

\* /backup-all
BackupAllCommand ==
    /\ LineEvent
    /\ CreateFullBackup
    /\ UNCHANGED shellVars

\* an empty line, /help, /search, /count, /today, /list-backups, an unknown
\* command: the display only
DisplayCommand ==
    /\ LineEvent
    /\ out' = ShellOut
    /\ UNCHANGED <<files, meta, backups, now, useCompression, call, shellVars>>

\* /restore type number: the backup is looked up in listBackups() and the
\* confirmation is asked for, or the command prints a message and returns
RestoreCommand(type, number) ==
    /\ LineEvent
    /\ question.kind = "none"
    /\ \E order \in readdirOrders(backups) :
         LET allBackups  == listBackups(backups, order)
             typeBackups == SelectSeq(allBackups, LAMBDA b : b.type = type)
             index       == parseInt(number).value - 1
             asks == /\ type \in {"full", "section"}
                     /\ number # <<>>
                     /\ typeBackups # <<>>
                     /\ ~parseInt(number).nan
                     /\ index >= 0
                     /\ index < Len(typeBackups)
         IN  question' = IF asks
                         THEN [kind |-> "restore",
                               path |-> typeBackups[index + 1].path,
                               type |-> type, number |-> number,
                               name |-> <<>>]
                         ELSE question
    /\ out' = ShellOut
    /\ UNCHANGED <<files, meta, backups, now, useCompression, call,
                   currentSection, uiLogs, timer, clockInterval,
                   timeouts, intervals>>

\* answer.toLowerCase() of the answers a prompt is given
toLowerCase(answer) == IF answer = "Y" THEN "y" ELSE answer

RestoreAnswer_AnyAnswer(answer) ==
    /\ call.op = "idle"
    /\ question.kind = "restore"
    /\ LET r == restoreFromBackup(files, meta, backups, question.path,
                                  IF question.type = "section"
                                  THEN currentSection ELSE <<>>,
                                  TRUE)
       IN  /\ files' = r.logs
           /\ meta' = r.meta
           /\ uiLogs' = IF r.ok THEN loadAllLogs(r.logs, currentSection)
                        ELSE uiLogs
    /\ question' = NoQuestion
    /\ out' = [ShellOut EXCEPT !.op = "restoreAnswer",
                               !.overwrite = (toLowerCase(answer) = "y")]
    /\ UNCHANGED <<backups, now, useCompression, call, currentSection, timer,
                   clockInterval, timeouts, intervals>>

\* the answer to 'this will overwrite current data. proceed? (y/n)'
RestoreAnswer(answer) ==
    /\ call.op = "idle"
    /\ question.kind = "restore"
    /\ IF toLowerCase(answer) = "y"
       THEN LET r == restoreFromBackup(files, meta, backups, question.path,
                                       IF question.type = "section"
                                       THEN currentSection ELSE <<>>,
                                       TRUE)
            IN  /\ files' = r.logs
                /\ meta' = r.meta
                /\ uiLogs' = IF r.ok THEN loadAllLogs(r.logs, currentSection)
                             ELSE uiLogs
       ELSE UNCHANGED <<files, meta, uiLogs>>
    /\ question' = NoQuestion
    /\ out' = [ShellOut EXCEPT !.op = "restoreAnswer",
                               !.overwrite = (toLowerCase(answer) = "y")]
    /\ UNCHANGED <<backups, now, useCompression, call, currentSection, timer,
                   clockInterval, timeouts, intervals>>

\* setTimeout(showMainMenu, 1500)
ToMenu == [fn |-> "showMainMenu", section |-> <<>>]

\* setTimeout(() => startLogger(newSection), 1000)
ToLogger(section) == [fn |-> "startLogger", section |-> section]

\* showMainMenu(): rl.question keeps the question that is waiting, if any
showMainMenu(q) ==
    IF q.kind = "none" THEN [NoQuestion EXCEPT !.kind = "menu"] ELSE q

\* /menu: clearInterval(clockInterval), then showMainMenu()
MenuCommand ==
    /\ LineEvent
    /\ question' = showMainMenu(question)
    /\ clockInterval' = FALSE
    /\ intervals' = IF clockInterval THEN intervals - 1 ELSE intervals
    /\ out' = ShellOut
    /\ UNCHANGED <<files, meta, backups, now, useCompression, call,
                   currentSection, uiLogs, timer, timeouts>>

\* startLogger(section): the logs are loaded and startClock arms the timer
\* of the display
startLogger(dir, section) ==
    [currentSection |-> section, logs |-> loadAllLogs(dir, section),
     clockInterval |-> TRUE]

\* the assignments of startLogger(section) and of startClock(): the handle
\* of the new interval replaces the one clockInterval held
OpenLogger(section) ==
    /\ currentSection' = startLogger(files, section).currentSection
    /\ uiLogs' = startLogger(files, section).logs
    /\ clockInterval' = startLogger(files, section).clockInterval
    /\ intervals' = intervals + 1

\* the answer to 'enter your choice: '
MenuAnswer(answer) ==
    /\ call.op = "idle"
    /\ question.kind = "menu"
    /\ LET choice == parseInt(answer)
           others == getSections(files) \ {config_defaultSection}
       IN  IF answer = <<"b">>
           THEN /\ OpenLogger(config_defaultSection)
                /\ question' = NoQuestion
                /\ UNCHANGED timeouts
           ELSE IF answer = <<"n">>
           THEN /\ question' = [NoQuestion EXCEPT !.kind = "name"]
                /\ UNCHANGED <<currentSection, uiLogs, clockInterval,
                               timeouts, intervals>>
           ELSE IF choice.nan \/ choice.value < 1
                   \/ choice.value > Cardinality(others)
           THEN /\ question' = NoQuestion
                /\ timeouts' = timeouts \cup {ToMenu}
                /\ UNCHANGED <<currentSection, uiLogs, clockInterval,
                               intervals>>
           ELSE \E section \in others :
                   /\ OpenLogger(section)
                   /\ question' = NoQuestion
                   /\ UNCHANGED timeouts
    /\ out' = ShellOut
    /\ UNCHANGED <<files, meta, backups, now, useCompression, call, timer>>

\* the answer to 'enter new section name'
NameAnswer(sectionName) ==
    /\ call.op = "idle"
    /\ question.kind = "name"
    /\ IF trim(sectionName) = <<>> \/ Len(sectionName) > maxSectionNameLength
       THEN /\ question' = NoQuestion
            /\ timeouts' = timeouts \cup {ToMenu}
       ELSE /\ question' = [NoQuestion EXCEPT !.kind = "description",
                                              !.name = sectionName]
            /\ UNCHANGED timeouts
    /\ out' = ShellOut
    /\ UNCHANGED <<files, meta, backups, now, useCompression, call,
                   currentSection, uiLogs, timer, clockInterval, intervals>>

\* the answer to 'enter section description'
DescriptionAnswer(description) ==
    /\ call.op = "idle"
    /\ question.kind = "description"
    /\ IF Len(description) > maxDescriptionLength
       THEN /\ timeouts' = timeouts \cup {ToMenu}
            /\ UNCHANGED <<files, meta>>
       ELSE /\ files' = createSectionFiles(files, question.name)
            /\ meta' = createSectionMeta(meta, question.name, description)
            /\ timeouts' = timeouts \cup {ToLogger(sanitize(question.name))}
    /\ question' = NoQuestion
    /\ out' = ShellOut
    /\ UNCHANGED <<backups, now, useCompression, call, currentSection, uiLogs,
                   timer, clockInterval, intervals>>

\* the callback of setTimeout(showMainMenu, 1500) runs
ShowMainMenu ==
    /\ call.op = "idle"
    /\ ToMenu \in timeouts
    /\ timeouts' = timeouts \ {ToMenu}
    /\ question' = showMainMenu(question)
    /\ out' = ShellOut
    /\ UNCHANGED <<files, meta, backups, now, useCompression, call,
                   currentSection, uiLogs, timer, clockInterval, intervals>>

\* the callback of setTimeout(() => startLogger(newSection), 1000) runs
StartLogger ==
    /\ call.op = "idle"
    /\ \E cb \in timeouts :
          /\ cb.fn = "startLogger"
          /\ timeouts' = timeouts \ {cb}
          /\ OpenLogger(cb.section)
    /\ out' = ShellOut
    /\ UNCHANGED <<files, meta, backups, now, useCompression, call, question,
                   timer>>

\* the texts, names and arguments the shell is driven with
ShellTexts == { <<"x">> }

OverLong(n) == [i \in 1..(n + 1) |-> "w"]

ShellNames == { <<>>, <<"w">>, OverLong(maxSectionNameLength) }

ShellDescriptions == { <<"d">>, OverLong(maxDescriptionLength) }

MenuAnswers == { <<"b">>, <<"n">>, <<"1">>, <<"9">> }

\* the answers to 'this will overwrite current data. proceed? (y/n): '
RestoreAnswers == { "y", "Y", "n", "yes", "" }

RestoreTypes == { "", "full", "section", "foo" }

RestoreNumbers == { <<>>, <<"x">>, <<"0">>, <<"1">>, <<"2">>, <<"1","x">>,
                    <<"9">> }

\* the shell after init(): the default section exists, the menu is shown
InitShell ==
    /\ files = (config_defaultSection :> <<>>)
    /\ meta = [exists |-> TRUE,
               data |-> (config_defaultSection :>
                            [description |-> "General thoughts"])]
    /\ backups = <<>>
    /\ now = 0
    /\ useCompression = TRUE
    /\ call = NoCall
    /\ out = NoOut
    /\ appended = <<>>
    /\ rt = NoRt
    /\ frt = NoFrt
    /\ gone = {}
    /\ steps = 0
    /\ currentSection = <<>>
    /\ uiLogs = <<>>
    /\ question = [NoQuestion EXCEPT !.kind = "menu"]
    /\ timer = FALSE
    /\ clockInterval = FALSE
    /\ timeouts = {}
    /\ intervals = 0

\* the log of the current section holds all but one of MaxEntries entries
ShellLogFull ==
    /\ existsSync(files, getLogFilePath(currentSection))
    /\ countNL(files[getLogFilePath(currentSection)]) >= MaxEntries - 1

\* the backup directory holds as many artifacts as the count rule keeps
ShellDirFull == Cardinality(DOMAIN backups) >= maxBackupsPerSection

\* the intervals of the display a session is followed up to
MaxIntervals == 2

ClocksFull == intervals >= MaxIntervals

\* the records of the other specifications are not kept by the shell
ShellKeep == UNCHANGED <<appended, rt, frt, gone, steps>>

\* no callback of setTimeout is waiting to run
NoTimeout == timeouts = {}

\* a session of the shell is followed within one value of the clock: the
\* entries and the artifacts it writes carry the time stamp of that value.
\* Its commands are typed while no callback of setTimeout is waiting, its
\* plain lines at any time; NextMenu follows the menu and the callbacks
\* under every order of lines and callbacks
NextShell ==
    \/ \E answer \in MenuAnswers :
          ~ClocksFull /\ MenuAnswer(answer) /\ ShellKeep
    \/ \E sectionName \in ShellNames : NameAnswer(sectionName) /\ ShellKeep
    \/ \E d \in ShellDescriptions : DescriptionAnswer(d) /\ ShellKeep
    \/ ShowMainMenu /\ ShellKeep
    \/ ~ClocksFull /\ StartLogger /\ ShellKeep
    \/ \E message \in ShellTexts :
          /\ ~ShellLogFull
          /\ ~ShellDirFull
          /\ LogMessage(message)
          /\ ShellKeep
    \/ /\ ~ShellLogFull
       /\ ~ShellDirFull
       /\ LogMessage(createTaggedMessage(<<"t">>, <<"x">>))
       /\ ShellKeep
    \/ NoTimeout /\ ClearCommand /\ ShellKeep
    \/ NoTimeout /\ ~ShellDirFull /\ BackupCommand /\ ShellKeep
    \/ NoTimeout /\ ~ShellDirFull /\ BackupAllCommand /\ ShellKeep
    \/ NoTimeout /\ DisplayCommand /\ ShellKeep
    \/ \E type \in RestoreTypes, number \in RestoreNumbers :
          NoTimeout /\ RestoreCommand(type, number) /\ ShellKeep
    \/ \E answer \in RestoreAnswers : RestoreAnswer(answer) /\ ShellKeep
    \/ NoTimeout /\ MenuCommand /\ ShellKeep

SpecShell == InitShell /\ [][NextShell]_vars

\* the menu, the prompts of a new section and the callbacks of setTimeout,
\* with lines and /menu typed at any moment at which no prompt is open
NextMenu ==
    \/ \E answer \in MenuAnswers :
          ~ClocksFull /\ MenuAnswer(answer) /\ ShellKeep
    \/ \E sectionName \in ShellNames : NameAnswer(sectionName) /\ ShellKeep
    \/ \E d \in ShellDescriptions : DescriptionAnswer(d) /\ ShellKeep
    \/ ShowMainMenu /\ ShellKeep
    \/ ~ClocksFull /\ StartLogger /\ ShellKeep
    \/ \E message \in ShellTexts :
          ~ShellLogFull /\ LogMessage(message) /\ ShellKeep
    \/ MenuCommand /\ ShellKeep

SpecMenu == InitShell /\ [][NextMenu]_vars

---------------------------------------------------------------------------
(* Timers: the scheduled full backup and the refresh of the display        *)

\* the call stack is empty. backupSection, createFullBackup, restoreFromBackup
\* and saveLog use the synchronous calls of fs only (writeFileSync,
\* readFileSync, readdirSync, unlinkSync) and never await: a callback of
\* setInterval or an event of readline is run by the event loop, which takes
\* the next callback only after the running one has returned
EventLoopIdle_Always == TRUE

EventLoopIdle == call.op = "idle"

\* scheduleBackups(intervalMinutes): a full backup at once, then the interval
\* timer is armed
ScheduleBackups ==
    /\ EventLoopIdle
    /\ ~timer
    /\ createFullBackupRun("scheduleBackups")
    /\ timer' = TRUE
    /\ UNCHANGED <<currentSection, uiLogs, question, clockInterval,
                   timeouts, intervals>>

\* the callback of setInterval in scheduleBackups: the outcome of
\* createFullBackup is dropped and nothing clears the timer
TimerBackup_StopOnFailure ==
    /\ timer
    /\ EventLoopIdle
    /\ createFullBackupRun("scheduledBackup")
    /\ timer' = out'.ok
    /\ UNCHANGED <<currentSection, uiLogs, question, clockInterval,
                   timeouts, intervals>>

TimerBackup ==
    /\ timer
    /\ EventLoopIdle
    /\ createFullBackupRun("scheduledBackup")
    /\ UNCHANGED shellVars

\* startClock(): the timer of the display is armed and the display is drawn
StartClock ==
    /\ EventLoopIdle
    /\ clockInterval' = TRUE
    /\ intervals' = intervals + 1
    /\ out' = [NoOut EXCEPT !.op = "startClock"]
    /\ UNCHANGED <<files, meta, backups, now, useCompression, call,
                   currentSection, uiLogs, question, timer, timeouts>>

\* the callback of setInterval in startClock: updateDisplay() reads the
\* buffer and writes the screen
DisplayRefresh ==
    /\ clockInterval
    /\ EventLoopIdle
    /\ out' = [NoOut EXCEPT !.op = "refresh"]
    /\ UNCHANGED <<files, meta, backups, now, useCompression, call, shellVars>>

\* the attempts of the scheduled backup are counted modulo 2, so that an
\* attempt that changes nothing on the disk is a step all the same
CountAttempt ==
    /\ steps' = (steps + 1) % 2
    /\ UNCHANGED <<appended, rt, frt, gone>>

TimerKeep == UNCHANGED <<appended, rt, frt, gone, steps>>

\* the backup directory of a session with timers is kept small
TimerDirFull == Cardinality(DOMAIN backups) >= maxBackupsPerSection

\* the state init() leaves on a first start, under the configuration of
\* backupConfig
InitTimer == Init /\ useCompression

NextTimer ==
    \/ now < MaxTime /\ Tick /\ Forget
    \/ \E t \in Texts :
          /\ totalEntries(files, DOMAIN files) < MaxLogLen
          /\ SaveLog(config_defaultSection, t) /\ Forget
    \/ ~TimerDirFull /\ BackupSectionRotate(config_defaultSection) /\ Forget
    \/ BackupSectionRotateEnd /\ Forget
    \/ ~TimerDirFull /\ CreateFullBackup /\ Forget
    \/ \E p \in DOMAIN backups, o \in BOOLEAN :
          RestoreFromBackup(p, config_defaultSection, o) /\ Forget
    \/ ScheduleBackups /\ TimerKeep
    \/ TimerBackup /\ CountAttempt
    \/ ~clockInterval /\ StartClock /\ TimerKeep
    \/ DisplayRefresh /\ TimerKeep

SpecTimer == InitTimer /\ [][NextTimer]_vars

\* the process that has called scheduleBackups, with the operations that
\* write the store and the backup directory between the attempts
NextTimerLive ==
    \/ now < MaxTime /\ Tick /\ Forget
    \/ \E t \in Texts :
          /\ totalEntries(files, DOMAIN files) < MaxLogLen
          /\ SaveLog(config_defaultSection, t) /\ Forget
    \/ ~TimerDirFull /\ BackupSectionRotate(config_defaultSection) /\ Forget
    \/ BackupSectionRotateEnd /\ Forget
    \/ ScheduleBackups /\ TimerKeep
    \/ TimerBackup /\ CountAttempt

\* the event loop runs a due callback once the running one has returned, and
\* a synchronous call that has started runs to its end
SpecTimerLive ==
    /\ InitTimer
    /\ [][NextTimerLive]_vars
    /\ SF_vars(TimerBackup /\ CountAttempt)
    /\ WF_vars(BackupSectionRotateEnd /\ Forget)

---------------------------------------------------------------------------
(* Every operation of the two components, MaxSteps of them at most          *)

\* one more operation is run; nothing of the past is remembered
Step ==
    /\ steps < MaxSteps
    /\ steps' = steps + 1
    /\ UNCHANGED <<appended, rt, frt, gone, shellVars>>

Next ==
    \/ now < MaxTime /\ Tick /\ Step
    \/ \E d \in Descriptions : CreateSection(Section2, d) /\ Step
    \/ EnsureDefaultSection /\ Step
    \/ \E s \in SectionIds, t \in Texts : SaveLog(s, t) /\ Step
    \/ \E s \in SectionIds : LoadAllLogs(s) /\ Step
    \/ \E s \in SectionIds : BackupSection(s) /\ Step
    \/ \E s \in SectionIds : BackupSectionRotate(s) /\ Step
    \/ BackupSectionRotateEnd /\ Step
    \/ \E s \in SectionIds : CreateBackup(s) /\ Step
    \/ \E s \in SectionIds : CreateBackupRotate(s) /\ Step
    \/ CreateBackupRotateEnd /\ Step
    \/ Crash /\ Step
    \/ CreateFullBackup /\ Step
    \/ \E p \in DOMAIN backups \cup {MissingPath},
          s \in SectionIds \cup {<<>>}, o \in BOOLEAN :
          RestoreFromBackup(p, s, o) /\ Step

Spec == Init /\ [][Next]_vars

---------------------------------------------------------------------------
(* Section Store: append and load (C5), createSection (C6)                 *)

\* the appended texts as the whole-file trim() of loadAllLogs leaves them:
\* the first without its leading, the last without its trailing white space
trimEnds(entries) ==
    IF entries = <<>> THEN <<>>
    ELSE LET a == [entries EXCEPT ![1] = trimStart(@)]
         IN  [a EXCEPT ![Len(a)] = trimEnd(@)]

JustLoaded == out.op = "loadAllLogs"

\* C5 as claimed: loadAllLogs returns exactly the texts appended to a log
\* that was absent or empty, unaltered and in the order appended, and the
\* empty sequence for an absent file.
C5_LoadReturnsAppendedUnaltered ==
    JustLoaded =>
        IF out.section \in DOMAIN files
        THEN out.lines = appended[out.section]
        ELSE out.lines = <<>>

\* C5 as amended: loadAllLogs returns the texts appended, in the order
\* appended, none duplicated and none dropped, each unaltered except that the
\* first has lost its leading and the last its trailing white space; it
\* returns the empty sequence for an absent file.
C5_LoadReturnsAppendedTrimmed ==
    JustLoaded =>
        IF out.section \in DOMAIN files
        THEN /\ out.lines = trimEnds(appended[out.section])
             /\ Len(out.lines) = Len(appended[out.section])
        ELSE out.lines = <<>>

\* three texts were appended and loaded, and the trim altered one of them
C5_Witness ==
    /\ JustLoaded
    /\ out.section \in DOMAIN files
    /\ Len(appended[out.section]) = 3
    /\ out.lines # appended[out.section]
    /\ out.lines = trimEnds(appended[out.section])

\* C6 as claimed: createSection(name, d) leaves the log of the sanitized id
\* in place, its content unchanged when it existed before the call, and
\* the sidecar entry of that id equal to {description: d}, whatever the
\* entry was before.
C6_CreateSectionIdempotent ==
    [][out'.op = "createSection" =>
          /\ out'.section \in DOMAIN files'
          /\ out'.section \in DOMAIN files =>
                 files'[out'.section] = files[out'.section]
          /\ meta'.exists
          /\ out'.section \in DOMAIN meta'.data
          /\ meta'.data[out'.section] = [description |-> out'.description]]_vars

---------------------------------------------------------------------------
(* Section backups: round trip (C1), rotation (C2), retention (C3),        *)
(* restore without overwrite (C7), write-once artifacts (C10)              *)

\* the artifacts written by backing up section s
artifactsOf(s) ==
    { p \in DOMAIN backups :
        \E t \in 0..now : p \in { sectionBackupName(s, t),
                                  gzName(sectionBackupName(s, t)) } }

\* C1 as claimed: when backupSection(s, false) returned the path p while s
\* held c, and only appends followed, restoreFromBackup(p, s, true) returns
\* true and leaves the log of s equal to c.
C1_SectionRoundTrip ==
    (out.op = "restoreFromBackup" /\ rt.valid /\ out.path = rt.path
        /\ out.section = rt.section /\ out.overwrite)
    => (out.ok /\ files[rt.section] = rt.content)

\* a step of a rotating backup (backupSection or createBackup, rotate=true)
RotatingStep ==
    out'.rotate /\ out'.op \in {"snapshot", "backupSection", "createBackup"}

\* C2: a step of a rotating backup changes the log of a section only when,
\* before the step, an artifact of the backup directory holds the whole
\* content of that log; a rotating backup whose snapshot could not be written
\* changes no log.
C2_TruncateOnlyAfterSnapshot ==
    [][RotatingStep =>
          /\ \A s \in DOMAIN files :
                files'[s] # files[s] =>
                    /\ files'[s] = <<>>
                    /\ \E p \in DOMAIN backups :
                          /\ backups[p].kind = "text"
                          /\ backups[p].text = files[s]
          /\ (out'.op # "snapshot" /\ ~out'.ok) => files' = files]_vars

\* a rotating backup has emptied a log that held entries, and the artifact it
\* returned holds them
C2_Witness ==
    /\ out.rotate /\ out.ok
    /\ out.op \in {"backupSection", "createBackup"}
    /\ files[out.section] = <<>>
    /\ existsSync(backups, out.path)
    /\ backups[out.path].text # <<>>

\* C3 as claimed: after an operation that created a section backup of s, at
\* most maxBackupsPerSection artifacts of s are in the backup directory and,
\* when retentionDays > 0, none of them is older than retentionDays.
C3_RetentionInvariant ==
    (out.ok /\ out.op \in {"backupSection", "createBackup"}) =>
        /\ Cardinality(artifactsOf(out.section)) <= maxBackupsPerSection
        /\ retentionDays > 0 =>
              \A p \in artifactsOf(out.section) :
                  ~(backups[p].mtime < now - retentionDays)

\* C7: restoreFromBackup(p, s, false) on an existing artifact that is not a
\* full backup, when the log of s exists, leaves every section file and the
\* sidecar unchanged.
C7_RestoreWithoutOverwriteIsNoOp ==
    [][(/\ out'.op = "restoreFromBackup"
        /\ ~out'.overwrite
        /\ existsSync(backups, out'.path)
        /\ ~startsWith(out'.path, fullBackupPrefix)
        /\ existsSync(files, getLogFilePath(out'.section)))
       => (files' = files /\ meta' = meta)]_vars

\* such a restore was skipped although the artifact differs from the log,
\* with a second section on disk
C7_Witness ==
    /\ out.op = "restoreFromBackup"
    /\ ~out.overwrite
    /\ existsSync(backups, out.path)
    /\ ~startsWith(out.path, fullBackupPrefix)
    /\ existsSync(files, out.section)
    /\ backups[out.path].text # files[out.section]
    /\ Cardinality(DOMAIN files) > 1

\* C10 as claimed: an artifact's content never changes while it exists, and
\* a name that was deleted is never created again.
C10_ArtifactsWriteOnce ==
    [][/\ \A p \in DOMAIN backups \cap DOMAIN backups' :
             backups'[p] = backups[p]
       /\ \A p \in DOMAIN backups' \ DOMAIN backups : p \notin gone]_vars

---------------------------------------------------------------------------
(* Full backups: round trip (C4), per-item merge (C8)                      *)

\* C4 as claimed: when createFullBackup returned the path p in a state with
\* the sections S and the sidecar M, a later restoreFromBackup(p, null, true)
\* returns true and leaves every section of S with the content it had and
\* the sidecar equal to M.
C4_FullRoundTrip ==
    (out.op = "restoreFromBackup" /\ frt.valid /\ out.path = frt.path
        /\ out.section = <<>> /\ out.overwrite)
    => /\ out.ok
       /\ \A s \in DOMAIN frt.files :
             s \in DOMAIN files /\ files[s] = frt.files[s]
       /\ meta = frt.meta

\* a restoreFromBackup(p, null, false) of a full artifact that is on disk
FullMergeStep ==
    /\ out'.op = "restoreFromBackup"
    /\ ~out'.overwrite
    /\ existsSync(backups, out'.path)
    /\ startsWith(out'.path, fullBackupPrefix)

\* C8: restoreFromBackup of a full artifact holding M sections, with
\* overwrite=false, writes exactly the N contained sections that have no log
\* file, each with its content of the artifact, leaves every existing log
\* unchanged, reports N of M and returns true, whatever N is.
C8_FullRestoreMerges ==
    [][FullMergeStep =>
          LET contained == DOMAIN backups[out'.path].sections
              absent == { s \in contained : ~existsSync(files, s) }
          IN  /\ out'.ok
              /\ DOMAIN files' = DOMAIN files \cup absent
              /\ \A s \in absent : files'[s] = backups[out'.path].sections[s]
              /\ \A s \in DOMAIN files : files'[s] = files[s]
              /\ out'.successCount = Cardinality(absent)
              /\ out'.sectionCount = Cardinality(contained)]_vars

\* two of the three sections of a full artifact existed, with contents other
\* than the artifact's: one section was restored and success returned
C8_Witness ==
    /\ out.op = "restoreFromBackup"
    /\ ~out.overwrite /\ out.ok
    /\ existsSync(backups, out.path)
    /\ startsWith(out.path, fullBackupPrefix)
    /\ out.successCount = 1
    /\ out.sectionCount = Cardinality(DOMAIN leftoverData.sections)
    /\ \E s \in DOMAIN files : files[s] # backups[out.path].sections[s]

---------------------------------------------------------------------------
(* Sections are never deleted (C9)                                         *)

\* a restoreFromBackup of a full artifact that is on disk
FullRestoreStep ==
    /\ out'.op = "restoreFromBackup"
    /\ existsSync(backups, out'.path)
    /\ startsWith(out'.path, fullBackupPrefix)

\* C9: no operation removes the log file of a section, and a restore of a
\* full artifact leaves the log of every section the artifact does not
\* contain in place with its content unchanged.
C9_SectionsNeverDeleted ==
    [][/\ \A s \in DOMAIN files : s \in DOMAIN files'
       /\ FullRestoreStep =>
             \A s \in DOMAIN files \ DOMAIN backups[out'.path].sections :
                 files'[s] = files[s]]_vars

\* an overwriting restore of a full artifact has run while a section with
\* entries, which the artifact does not contain, was on disk
C9_Witness ==
    /\ out.op = "restoreFromBackup" /\ out.ok /\ out.overwrite
    /\ existsSync(backups, out.path)
    /\ startsWith(out.path, fullBackupPrefix)
    /\ \E s \in DOMAIN files \ DOMAIN backups[out.path].sections :
          files[s] # <<>>

---------------------------------------------------------------------------
(* Classification of the artifacts (C11)                                   *)

\* the record listAllBackups reports for file, the directory being
\* enumerated in the order given
reportOf(dir, order, file) ==
    LET all == listAllBackups(dir, order)
    IN  all[CHOOSE i \in DOMAIN all : all[i].name = file]

\* C11 as claimed: listAllBackups reports the artifact a createFullBackup
\* wrote with type full, and the artifact a backupSection(s) wrote with type
\* section and section s.
C11_Classification ==
    (out.ok /\ out.op \in {"backupSection", "createFullBackup"}
        /\ existsSync(backups, out.path))
    => \A order \in readdirOrders(backups) :
          LET b == reportOf(backups, order, out.path)
          IN  IF out.op = "createFullBackup"
              THEN b.type = "full"
              ELSE /\ b.type = "section"
                   /\ b.section.found
                   /\ b.section.name = out.section

---------------------------------------------------------------------------
(* Failing filesystem steps (C12)                                          *)

\* C12 as claimed: whatever step on the filesystem fails, the operation
\* returns to its caller and raises nothing.
C12_NoOperationRaises == ~out.raised

---------------------------------------------------------------------------
(* One run of the cleanup (C13, C14)                                       *)

\* the paths the count rule matches: those after the first
\* maxBackupsPerSection of the matching records
byCountRule(matching) ==
    { matching[i].path : i \in (maxBackupsPerSection + 1)..Len(matching) }

\* the paths the age rule matches at date t with the retention of days
byAgeRule(matching, t, days) ==
    IF days > 0
    THEN { matching[i].path :
              i \in { j \in DOMAIN matching : matching[j].date < t - days } }
    ELSE {}

\* the backup directory as backupSection(defaultSection) called now hands it
\* to cleanupOldBackups
dirOfSectionCleanup ==
    backupSectionSnapshot(files, backups, config_defaultSection, now,
                          useCompression).dir

\* the backup directory as createFullBackup called now hands it to
\* cleanupOldFullBackups
dirOfFullCleanup ==
    createFullBackupWrite(files, meta, backups, now, useCompression)

\* dir without the paths of gone
without(dir, paths) == [p \in DOMAIN dir \ paths |-> dir[p]]

\* one run on the matching records removes exactly the union of the rules
RemovesUnion(dir, matching, days) ==
    cleanupRun(dir, matching, now, days, {})
        = without(dir, byCountRule(matching) \cup byAgeRule(matching, now, days))

\* C14: when no step on the filesystem fails, the run of cleanupOldBackups
\* that a backupSection called now would make, and the run of
\* cleanupOldFullBackups that a createFullBackup called now would make,
\* remove exactly the matching backups after the first maxBackupsPerSection
\* of the enumeration and, when the retention is positive, the matching
\* backups older than it, whatever the order of the enumeration; with a
\* retention of 0 only the count rule removes.
C14_CleanupRemovesUnion ==
    \A days \in {0, retentionDays} :
        /\ \A order \in readdirOrders(dirOfSectionCleanup) :
              RemovesUnion(dirOfSectionCleanup,
                           matchingBackups(dirOfSectionCleanup, order,
                                           config_defaultSection), days)
        /\ \A order \in readdirOrders(dirOfFullCleanup) :
              RemovesUnion(dirOfFullCleanup,
                           matchingFullBackups(dirOfFullCleanup, order), days)

\* the records of a run of which one is matched by both rules, another by
\* the age rule alone, while the directory holds an artifact that does not
\* match
BothRulesMatch(dir, matching) ==
    /\ byCountRule(matching) \cap byAgeRule(matching, now, retentionDays) # {}
    /\ byAgeRule(matching, now, retentionDays) \ byCountRule(matching) # {}
    /\ \E p \in DOMAIN dir : \A i \in DOMAIN matching : matching[i].path # p

\* a cleanup of section backups is about to run in which the two rules
\* overlap, and so is a cleanup of full backups in which one artifact is
\* matched by both
C14_Witness ==
    /\ \E order \in readdirOrders(dirOfSectionCleanup) :
          BothRulesMatch(dirOfSectionCleanup,
                         matchingBackups(dirOfSectionCleanup, order,
                                         config_defaultSection))
    /\ \E order \in readdirOrders(dirOfFullCleanup) :
          LET matching == matchingFullBackups(dirOfFullCleanup, order)
          IN  byCountRule(matching)
                  \cap byAgeRule(matching, now, retentionDays) # {}

\* one run in which the unlink of denied fails removes every other path that
\* a rule matches
SurvivesDenial(dir, matching, denied) ==
    LET after == cleanupRun(dir, matching, now, retentionDays, {denied})
    IN  \A p \in (byCountRule(matching)
                     \cup byAgeRule(matching, now, retentionDays)) \ {denied} :
            ~existsSync(after, p)

\* C13 as claimed: in the run of cleanupOldBackups that a backupSection
\* called now would make, and in the run of cleanupOldFullBackups of a
\* createFullBackup, when the deletion of one matched backup fails every
\* other matched backup is still deleted.
C13_CleanupSurvivesFailure ==
    /\ \A order \in readdirOrders(dirOfSectionCleanup) :
          LET matching == matchingBackups(dirOfSectionCleanup, order,
                                          config_defaultSection)
          IN  \A denied \in byCountRule(matching)
                             \cup byAgeRule(matching, now, retentionDays) :
                  SurvivesDenial(dirOfSectionCleanup, matching, denied)
    /\ \A order \in readdirOrders(dirOfFullCleanup) :
          LET matching == matchingFullBackups(dirOfFullCleanup, order)
          IN  \A denied \in byCountRule(matching)
                             \cup byAgeRule(matching, now, retentionDays) :
                  SurvivesDenial(dirOfFullCleanup, matching, denied)

---------------------------------------------------------------------------
(* Sanitization (C15)                                                      *)

\* C15 as claimed: createSection(name, d) returns the id that has the
\* length of name, with '_' in the place of every character of name outside
\* [A-Za-z0-9_-] and the character of name elsewhere; after the call the log
\* of the id exists, empty if there was none, and the sidecar maps the id to
\* {description: d}.
C15_Sanitization ==
    [][out'.op = "createSection" =>
          LET id == out'.section
          IN  /\ Len(id) = Len(out'.name)
              /\ \A i \in 1..Len(id) :
                    id[i] = IF out'.name[i] \in Letters \cup Digits \cup {"_", "-"}
                            THEN out'.name[i] ELSE "_"
              /\ existsSync(files', id)
              /\ ~existsSync(files, id) => files'[id] = <<>>
              /\ meta'.exists
              /\ id \in DOMAIN meta'.data
              /\ meta'.data[id] = [description |-> out'.description]]_vars

---------------------------------------------------------------------------
(* backupSection of a section without a log (C16)                          *)

\* C16: backupSection(s, rotate) on a section that has no log file returns
\* null, for both values of rotate, and leaves the backup directory, the
\* section files and the sidecar as they were.
C16_BackupOfMissingSection ==
    [][(out'.op = "backupSection" /\ ~existsSync(files, out'.section)) =>
          /\ ~out'.ok
          /\ out'.path = <<>>
          /\ backups' = backups
          /\ files' = files
          /\ meta' = meta]_vars

\* a rotating backupSection of a section without a log has returned null
\* while the backup directory held artifacts
C16_Witness ==
    /\ out.op = "backupSection" /\ out.rotate /\ ~out.ok
    /\ ~existsSync(files, out.section)
    /\ backups # <<>>

---------------------------------------------------------------------------
(* Restore of a section artifact without a section (C17)                   *)

\* a restoreFromBackup(p, null, overwrite) of an artifact that is on disk
\* and is not a full backup
NoTargetStep ==
    /\ out'.op = "restoreFromBackup"
    /\ out'.section = <<>>
    /\ existsSync(backups, out'.path)
    /\ ~startsWith(out'.path, fullBackupPrefix)

\* C17: restoreFromBackup on an existing artifact that is not a full backup,
\* called without a section, returns false for both values of overwrite
\* and changes no section file and not the sidecar.
C17_SectionRestoreNeedsTarget ==
    [][NoTargetStep => (~out'.ok /\ files' = files /\ meta' = meta)]_vars

\* such a restore, with overwrite set, has returned false on an artifact
\* whose text differs from the log of the section it was taken from
C17_Witness ==
    /\ out.op = "restoreFromBackup"
    /\ out.section = <<>> /\ out.overwrite /\ ~out.ok
    /\ existsSync(backups, out.path)
    /\ ~startsWith(out.path, fullBackupPrefix)
    /\ \E s \in DOMAIN files :
          /\ out.path = backupSectionPath(s, now, useCompression)
          /\ backups[out.path].text # files[s]

---------------------------------------------------------------------------
(* The sidecar in a restore of a full backup (C18)                         *)

\* a restoreFromBackup of a full artifact that is on disk and could be read
FullRestoreDone ==
    /\ out'.op = "restoreFromBackup"
    /\ out'.ok
    /\ existsSync(backups, out'.path)
    /\ startsWith(out'.path, fullBackupPrefix)

\* C18: a restore of a full artifact with overwrite=false leaves an existing
\* sidecar unchanged; with overwrite=true, or when there is no sidecar, the
\* sidecar after the call is the metadata of the artifact.
C18_SidecarRestoreGuard ==
    [][FullRestoreDone =>
          IF ~out'.overwrite /\ meta.exists
          THEN meta' = meta
          ELSE meta' = [exists |-> TRUE,
                        data |-> backups[out'.path].metadata]]_vars

\* a restore with overwrite=false has written the sidecar of the artifact of
\* the earlier run, which only happens when there was no sidecar, next to a
\* log that existed
C18_Witness ==
    /\ out.op = "restoreFromBackup" /\ out.ok /\ ~out.overwrite
    /\ existsSync(backups, out.path)
    /\ startsWith(out.path, fullBackupPrefix)
    /\ meta = [exists |-> TRUE, data |-> leftoverData.metadata]
    /\ out.successCount < out.sectionCount

---------------------------------------------------------------------------
(* What a skipped restore of a section returns (C19)                       *)

\* a restoreFromBackup of a section artifact that is on disk, for a section
\* whose log exists, with overwrite=false: the restore is skipped
SkippedSectionRestore ==
    /\ out'.op = "restoreFromBackup"
    /\ ~out'.overwrite
    /\ existsSync(backups, out'.path)
    /\ ~startsWith(out'.path, fullBackupPrefix)
    /\ out'.section # <<>>
    /\ existsSync(files, getLogFilePath(out'.section))

\* C19: a restore of a section artifact that is skipped because the log
\* exists and overwrite is false does not return false, the value of a
\* missing artifact or of a failed read.
C19_SkipIsNotFailure ==
    [][SkippedSectionRestore => out'.ok # FALSE]_vars

---------------------------------------------------------------------------
(* The rotation signal of saveLog (C20)                                    *)

\* the size of the log of section in dir
sizeOf(dir, section) == Len(dir[getLogFilePath(section)])

\* C20: saveLog returns true exactly when the append was made and the log is
\* then larger than the rotation threshold; it returns false otherwise, also
\* when the append fails.
C20_RotationSignal ==
    [][out'.op = "saveLog" =>
          out'.ok = (/\ files' # files
                     /\ sizeOf(files', out'.section) > logRotationSize)]_vars

\* saveLog has returned true for a log larger than the threshold
C20_Witness ==
    /\ out.op = "saveLog" /\ out.ok
    /\ sizeOf(files, out.section) > logRotationSize

---------------------------------------------------------------------------
(* The payload of a full backup (C21)                                      *)

\* createFullBackup has returned a path and its artifact is on disk
FullBackupDone ==
    /\ out.op = "createFullBackup"
    /\ out.ok
    /\ existsSync(backups, out.path)

\* C21: the payload of a full backup records the sidecar, or the empty object
\* when there is none, and its sections map has exactly the ids getSections
\* returns, each with the whole content of its log.
C21_FullBackupPayload ==
    FullBackupDone =>
        LET backupData == backups[out.path]
        IN  /\ backupData.metadata = IF meta.exists THEN meta.data ELSE EmptyObj
            /\ DOMAIN backupData.sections = getSections(files)
            /\ \A s \in getSections(files) :
                  backupData.sections[s] = files[getLogFilePath(s)]

---------------------------------------------------------------------------
(* ensureDefaultSection (C22)                                              *)

\* C22: after ensureDefaultSection the default section has a log; when the
\* log existed the call changes neither the logs nor the sidecar; a second
\* call changes nothing.
C22_EnsureDefaultIdempotent ==
    [][out'.op = "ensureDefaultSection" =>
          /\ existsSync(files', getLogFilePath(config_defaultSection))
          /\ existsSync(files, getLogFilePath(config_defaultSection))
                => files' = files /\ meta' = meta
          /\ ensureDefaultSection(files', meta') =
                [files |-> files', meta |-> meta']]_vars

\* ensureDefaultSection has run on a default section that had entries, with
\* and without a description in the sidecar
C22_Witness ==
    /\ out.op = "ensureDefaultSection"
    /\ existsSync(files, getLogFilePath(config_defaultSection))
    /\ files[getLogFilePath(config_defaultSection)] # <<>>

---------------------------------------------------------------------------
(* Logs are append-only (C23)                                              *)

\* the entries of a log: its lines in file order, each one ended by the
\* newline saveLog appends
entriesOf(dir, section) ==
    IF ~existsSync(dir, getLogFilePath(section)) THEN <<>>
    ELSE LET lines == split(dir[getLogFilePath(section)])
         IN  IF lines[Len(lines)] = <<>>
             THEN SubSeq(lines, 1, Len(lines) - 1)
             ELSE lines

isPrefix(a, b) == Len(a) <= Len(b) /\ SubSeq(b, 1, Len(a)) = a

\* a step that may shorten or replace a log: a rotating backup, or a restore
\* as far as it wrote the log of section
MayRewrite(section) ==
    \/ out'.rotate
    \/ /\ out'.op = "restoreFromBackup"
       /\ files'[getLogFilePath(section)] # files[getLogFilePath(section)]

\* what saveLog(s, text) does to the store: one entry more in the log of s,
\* every other log, the sidecar and the backups as they were
AppendsOneEntry ==
    LET path == getLogFilePath(out'.section)
    IN  /\ DOMAIN files' = DOMAIN files \cup {path}
        /\ \A other \in DOMAIN files \ {path} : files'[other] = files[other]
        /\ Len(entriesOf(files', out'.section))
              = Len(entriesOf(files, out'.section)) + 1
        /\ meta' = meta
        /\ backups' = backups

\* no log is removed, and the entries of a log are a prefix of its entries
\* after the step
KeepsEntries ==
    \A s \in DOMAIN files :
        /\ s \in DOMAIN files'
        /\ ~MayRewrite(s) => isPrefix(entriesOf(files, s), entriesOf(files', s))

\* C23: but for a rotating backup and a restore that writes the section,
\* every step leaves the entries of every log a prefix of its entries
\* afterwards; saveLog(s, text) adds exactly one entry to s and leaves every
\* other log, the sidecar and the backups unchanged.
C23_LogsAppendOnly ==
    [][KeepsEntries /\ (out'.op = "saveLog" => AppendsOneEntry)]_vars

\* saveLog has added a second entry to a log, next to another log with an
\* entry and with a backup on disk
C23_Witness ==
    /\ out.op = "saveLog"
    /\ Len(entriesOf(files, out.section)) >= 2
    /\ \E s \in DOMAIN files \ {getLogFilePath(out.section)} :
          entriesOf(files, s) # <<>>
    /\ backups # <<>>

---------------------------------------------------------------------------
(* Invalid arguments of the shell (C24)                                    *)

\* the files of the sections, the sidecar and the backup directory are left
\* as they were
StoresUnchanged == files' = files /\ meta' = meta /\ backups' = backups

\* the number of backups of a type in the backup directory
countOfType(dir, type) ==
    Cardinality({ file \in DOMAIN dir : backupRecord(dir, file).type = type })

\* the arguments of /restore that are invalid: the type is missing or is
\* neither full nor section, the number is missing, is not a decimal number,
\* or is not the number of a backup of that type
InvalidRestore(type, number, dir) ==
    \/ type \notin {"full", "section"}
    \/ number = <<>>
    \/ \E i \in DOMAIN number : number[i] \notin Digits
    \/ parseDigits(number, 0) < 1
    \/ parseDigits(number, 0) > countOfType(dir, type)

InvalidName(sectionName) ==
    trim(sectionName) = <<>> \/ Len(sectionName) > maxSectionNameLength

InvalidDescription(description) == Len(description) > maxDescriptionLength

\* a /restore with invalid arguments, and the answer to the question it may
\* have asked
InvalidRestoreStep ==
    \/ \E type \in RestoreTypes, number \in RestoreNumbers :
          InvalidRestore(type, number, backups) /\ RestoreCommand(type, number)
    \/ \E answer \in RestoreAnswers :
          /\ question.kind = "restore"
          /\ InvalidRestore(question.type, question.number, backups)
          /\ RestoreAnswer(answer)

\* a request to create a section with an invalid name or description
InvalidCreateStep ==
    \/ \E sectionName \in ShellNames :
          InvalidName(sectionName) /\ NameAnswer(sectionName)
    \/ \E d \in ShellDescriptions :
          InvalidDescription(d) /\ DescriptionAnswer(d)

\* C24: a /restore with a missing or unknown type, or with a missing,
\* non-numeric or out-of-range number, and a request to create a section with
\* an empty or over-length name or an over-length description, leave the
\* section files, the sidecar and the backup directory unchanged.
C24_InvalidArgumentsMutateNothing ==
    [][InvalidRestoreStep \/ InvalidCreateStep => StoresUnchanged]_vars

---------------------------------------------------------------------------
(* The target of /restore section <n> (C29)                                *)

\* the sections a backup named path was taken from by backupSection or by
\* createBackup
ownersOf(path) ==
    { s \in DOMAIN files :
        \E t \in 0..now :
            path \in { sectionBackupName(s, t), gzName(sectionBackupName(s, t)) } }

\* the user answers y to the question of /restore section <n>
ConfirmedSectionRestore ==
    /\ question.kind = "restore"
    /\ question.type = "section"
    /\ RestoreAnswer("y")

\* C29: a confirmed /restore section <n> writes the selected backup to the log
\* of the section the backup was taken from, and to no other log.
C29_RestoreTargetsOwner ==
    [][ConfirmedSectionRestore =>
          \A s \in DOMAIN files' :
              (s \notin DOMAIN files \/ files'[s] # files[s])
                  => s \in ownersOf(question.path)]_vars

---------------------------------------------------------------------------
(* The entries the shell holds and the log (C30)                           *)

\* the shell is in a section and no question is waiting for its answer
IdleInSection == currentSection # <<>> /\ question.kind = "none"

\* C30: whenever the shell is idle in a section, the entries it holds in
\* memory are the entries loadAllLogs returns for that section.
C30_BufferMatchesFile ==
    IdleInSection => uiLogs = loadAllLogs(files, currentSection)

\* the shell is idle in a section whose log was rotated by the last entry:
\* it holds the system message alone, and the copy of the log is on disk
C30_Witness ==
    /\ IdleInSection
    /\ uiLogs = <<getCurrentDateTime(now) \o <<" ">> \o SystemMessage>>
    /\ existsSync(backups, sectionBackupName(currentSection, now))

---------------------------------------------------------------------------
\* C25: a callback of a timer, the scheduled full backup or the refresh of
\* the display, runs only while no operation is between its first and its
\* last step on the filesystem, and the step that follows the first part of
\* an operation is the rest of that operation
TimerFired == out'.op \in {"scheduledBackup", "refresh"}

---------------------------------------------------------------------------
\* C26: the step that arms the timer of scheduleBackups is itself an attempt
\* of a full backup, no step disarms the timer, whatever the outcome of an
\* attempt, and from any moment at which the timer is armed one more attempt
\* of the scheduled backup follows (the attempts are counted modulo 2 in
\* steps), so that the attempts never end
ScheduleAttempt == out'.op = "scheduleBackups"

---------------------------------------------------------------------------
\* C27: when backupSection or createFullBackup has returned a path, the
\* artifact of that path is in the backup directory
C27_ReturnedBackupExists ==
    out.op \in {"backupSection", "createFullBackup"} /\ out.ok
        => existsSync(backups, out.path)

---------------------------------------------------------------------------
\* the artifact named p was written by a backup of section s
isBackupOf(p, s) ==
    \E t \in 0..now :
        p \in { sectionBackupName(s, t), gzName(sectionBackupName(s, t)) }

\* C28: every artifact that a call of backupSection(s) deletes was written
\* by a backup of section s
C28_CleanupStaysInSection ==
    [][out'.op = "backupSection"
          => \A p \in DOMAIN backups \ DOMAIN backups' :
                isBackupOf(p, out'.section)]_vars

---------------------------------------------------------------------------
\* the entries of the sidecar as getSectionMetadata reads them
sidecarOf(m) == getSectionMetadata(m)

\* every log that existed is still there with the same content
LogsKept ==
    \A s \in DOMAIN files : s \in DOMAIN files' /\ files'[s] = files[s]

\* the sidecar entries of the sections other than id are the same ones
OtherDescriptionsKept(id) ==
    \A s \in (DOMAIN sidecarOf(meta) \cup DOMAIN sidecarOf(meta')) \ {id} :
        /\ s \in DOMAIN sidecarOf(meta)
        /\ s \in DOMAIN sidecarOf(meta')
        /\ sidecarOf(meta')[s] = sidecarOf(meta)[s]

\* C31: a step of createSection(name, d) leaves the content of every log and
\* the sidecar entry of every section other than the sanitized id as they
\* were
C31_CreateSectionTouchesOneSection ==
    [][out'.op = "createSection"
          => LogsKept /\ OtherDescriptionsKept(out'.section)]_vars

\* createSection has returned for a section whose log held entries, while
\* another section has entries and a description of its own
C31_Witness ==
    /\ out.op = "createSection"
    /\ out.section \in DOMAIN files
    /\ files[out.section] # <<>>
    /\ \E s \in DOMAIN files \cap DOMAIN sidecarOf(meta) :
          s # out.section /\ files[s] # <<>>

---------------------------------------------------------------------------
\* the shell is between /menu and the next startLogger: /menu has cleared
\* the interval of clockInterval and no startClock has replaced it
InMenu == currentSection # <<>> /\ ~clockInterval

\* C32: no step taken between /menu and the next startLogger changes the
\* content of a log
C32_NoLoggingFromMenu == [][InMenu => LogsKept]_vars

---------------------------------------------------------------------------
\* C33: at most one interval of the display is active
C33_OneRefreshTimer == intervals <= 1

---------------------------------------------------------------------------
\* the lines a session of the shell logs: a plain line and a tagged one
LogLines == ShellTexts \cup { createTaggedMessage(<<"t">>, <<"x">>) }

\* the entry logMessage writes after a rotation, as it stands in the file
SystemEntry(t) == getCurrentDateTime(t) \o <<" ">> \o SystemMessage \o NL

\* the rotation threshold is at least the size of the system entry
SystemEntryFits == Len(SystemEntry(now)) <= logRotationSize

\* what a logMessage(message) step has done: at most one rotation, each
\* rotation followed by one nested call, and after a rotation the log of
\* the section is the system entry alone
OneRotation(message) ==
    LET r == logMessage(files, backups, currentSection, uiLogs, message, now)
    IN  /\ r.rotations <= 1
        /\ r.rotations = 1
              => files'[getLogFilePath(currentSection)] = SystemEntry(now)

\* C34: when the rotation threshold is at least the size of the system
\* entry, every call of logMessage ends after at most one rotation and one
\* nested call, and after a rotation the log holds the system entry alone
C34_LogMessageTerminates ==
    [][SystemEntryFits
          => \A message \in LogLines :
                LogMessage(message) => OneRotation(message)]_vars

\* a logMessage has rotated the log: the copy holds more than the threshold
\* and the log of the section is the system entry
C34_Witness ==
    /\ IdleInSection
    /\ SystemEntryFits
    /\ files[getLogFilePath(currentSection)] = SystemEntry(now)
    /\ \E p \in DOMAIN backups : Len(backups[p].text) > logRotationSize

---------------------------------------------------------------------------
\* a /restore <type> <n> command is handled
RestoreStep ==
    \E type \in RestoreTypes, number \in RestoreNumbers :
        RestoreCommand(type, number)

\* the confirmation prompt of /restore is answered with 'y' or 'Y'
ConfirmedStep ==
    \E answer \in RestoreAnswers :
        toLowerCase(answer) = "y" /\ RestoreAnswer(answer)

\* C35: the /restore command itself and every step taken while its
\* confirmation prompt is open, other than the answer 'y' or 'Y', leave the
\* section files, the sidecar and the backup artifacts as they were
C35_DeclinedRestoreChangesNothing ==
    [][RestoreStep \/ (question.kind = "restore" /\ ~ConfirmedStep)
          => StoresUnchanged]_vars

\* the prompt has been answered with something other than 'y' or 'Y' while
\* a backup of the section differs from its log
C35_Witness ==
    /\ out.op = "restoreAnswer"
    /\ ~out.overwrite
    /\ \E p \in DOMAIN backups :
          /\ backups[p].kind = "text"
          /\ currentSection \in ownersOf(p)
          /\ backups[p].text # files[getLogFilePath(currentSection)]

============================================================================
